---- MODULE Spec2Model ----
(***************************************************************************)
(* A model of the reactive state toolkit ibnlanre/atom:                    *)
(*   - Particle (the observable cell): value, subscriber Set, history      *)
(*   - createCompositeStore (the path-addressable store)                   *)
(*   - atom / useAtom (the reactive unit and its effect lifecycle)         *)
(* JavaScript references are modelled as identities (numbers); Object.is   *)
(* on references is equality of identities.  JavaScript arrays are 0-based *)
(* and TLA+ sequences 1-based: At(h, i) reads h[i] of the source.          *)
(***************************************************************************)
EXTENDS Integers, Sequences, FiniteSets, TLC

(* ------------------------------ bounds -------------------------------- *)

\* The distinct references a caller may publish: 1..NumVals.
NumVals == 3

\* The observer callbacks that exist: 1..NumObs.
NumObs == 2

\* Longest history a publish may build.
MaxHist == 3

\* Deepest nesting of calls made from inside subscriber callbacks.
MaxDepth == 2

\* Longest entry list of the subscriber Set while a forEach is running.
MaxEntries == 2

Values == 1..NumVals

Observers == 1..NumObs

\* The JavaScript value undefined.
Undefined == 0

\* A deleted entry of a Set's entry list.
Empty == 0

\* No record (a ghost field that holds nothing yet).
None == [none |-> TRUE]

VARIABLES
  \* Particle
  state, subscribers, cursor, debug, history,
  \* the calls in progress: one frame per running forEach or immediate call
  stack,
  \* the handles returned by subscribe
  subscriptions,
  \* what the most recent call of the cell's interface was and found
  last,
  \* the undo/redo sequence in progress
  trip,
  \* what the subscriber callbacks do: "passive" ones only return or throw,
  \* "calling" ones also call the cell's interface while they run
  callbacks,
  \* which of the observations above are recorded: "call" (last),
  \* "pass" (the frames' records of their passes), "trip" (trip), "done"
  \* (last also keeps the subscribers the call found and, of the pass or
  \* immediate callback it started, what was called with what, once over)
  observe

cellVars == <<state, subscribers, cursor, debug, history, stack,
              subscriptions, last, trip, callbacks, observe>>

VARIABLES
  \* createCompositeStore: the objects that exist (heap[i] is the object
  \* with reference -i), the closure variables state and subscribers
  heap, storeState, storeSubscribers,
  \* the set that was just made and what it did (none once the
  \* subscribers have changed since)
  lastSet,
  \* a root that a caller read with $get() and kept, with the objects as
  \* they were when it was read
  captured,
  \* the subscribers whose $sub has returned its function
  storeDisposers,
  \* the function of a $sub that was just called and the Sets it found
  lastUnsub,
  \* which createCompositeStore or Store it is: "composite" (part_000),
  \* "draft" (createCompositeStore of store.ts) or "class" (Store of
  \* store.ts)
  build

storeVars == <<heap, storeState, storeSubscribers, lastSet, captured,
               storeDisposers, lastUnsub, build>>

VARIABLES
  \* atom: the two Sets of cleanup functions
  collector,
  \* the configuration: debounce.delay, and what events.use returns
  \* ("pair", "function" or "nothing", or "rerun" or "unmount" for an
  \* object with that member only; new functions at each run or the same)
  delay, returns, fresh,
  \* the cleanup functions that throw when they are called
  throwing,
  \* the usage (a component calling useAtom): "idle", "active" or "disposed",
  \* its options useArgs and enabled, the cells it is subscribed to
  usage, useArgs, enabled, attached,
  \* the debounce timers that are pending, the runs of events.use so far
  timers, runs,
  \* how often each cleanup function has been called
  called,
  \* what the most recent step of the usage was and did
  lastAtom

VARIABLES
  \* atom: the value of its value cell and of its context cell
  observable, signal,
  \* the configuration: which events.set the atom was given ("none" if none)
  setEvent,
  \* the component calling useAtom: what its latest render read from
  \* useState (state), what React holds for the next render (stored, ctx),
  \* whether its useEffect has subscribed it
  hook,
  \* what the most recent call on the atom was, found and returned
  lastUnit,
  \* the calls of the usage's setter with prev => prev + 1 made in a row
  \* since the latest render, and the value the first of them found
  burst

unitVars == <<observable, signal, setEvent, hook, lastUnit, burst>>

VARIABLES
  \* debounceEffect: the options it was given, and whether the effect
  \* returns a destructor
  debounce,
  \* the ticks until the pending timer expires (0: none is pending), the
  \* ticks since the latest call of the debounced function or of a function
  \* it returned
  timeout, waited,
  \* the calls of the debounced function and of the effect so far
  debouncedCalls, effectCalls,
  \* the destructor the latest call of the effect returned (0: none), and
  \* how often each destructor has been called
  destructor, destructed,
  \* what the latest call of the debounced function, or of a function it
  \* returned, found and did
  lastDebounce

debounceVars == <<debounce, timeout, waited, debouncedCalls, effectCalls,
                  destructor, destructed, lastDebounce>>

VARIABLES
  \* createStore and atom: for the store and for the atom, the factory the
  \* constructor was called with and whether the call threw (none: it has
  \* not been called)
  made

factoryVars == <<made>>

VARIABLES
  \* a second component calling useAtom of the same atom: whether it is
  \* "idle", "active" or "disposed", and the functions the runs of the effect
  \* it started returned
  peer

peerVars == <<peer>>

atomVars == <<collector, delay, returns, fresh, throwing, usage, useArgs,
              enabled, attached, timers, runs, called, lastAtom, unitVars,
              debounceVars, factoryVars, peerVars>>

vars == <<cellVars, storeVars, atomVars>>

\* The cells of the atom are not followed.
NoUnit ==
  /\ observable = 0
  /\ signal = <<>>
  /\ setEvent = "none"
  /\ hook = [none |-> TRUE]
  /\ lastUnit = [none |-> TRUE]
  /\ burst = [none |-> TRUE]

\* The effect of the atom is not followed.
NoEffect ==
  /\ collector = <<>>
  /\ delay = 0
  /\ returns = "nothing"
  /\ fresh = FALSE
  /\ throwing = {}
  /\ usage = "idle"
  /\ useArgs = 0
  /\ enabled = FALSE
  /\ attached = {}
  /\ timers = 0
  /\ runs = 0
  /\ called = <<>>
  /\ lastAtom = [none |-> TRUE]

\* No debounced function has been created.
NoDebounce ==
  /\ debounce = [none |-> TRUE]
  /\ timeout = 0
  /\ waited = 0
  /\ debouncedCalls = 0
  /\ effectCalls = 0
  /\ destructor = 0
  /\ destructed = <<>>
  /\ lastDebounce = [none |-> TRUE]

\* No constructor is followed.
NoFactory == made = [store |-> [none |-> TRUE], atom |-> [none |-> TRUE]]

\* No second component is followed.
NoPeer == peer = [usage |-> "idle", filed |-> {}]

\* No atom has been created.
NoAtom == NoEffect /\ NoUnit /\ NoDebounce /\ NoFactory /\ NoPeer

\* No store has been created.
NoStore ==
  /\ heap = <<>>
  /\ storeState = 0
  /\ storeSubscribers = <<>>
  /\ lastSet = [none |-> TRUE]
  /\ captured = [none |-> TRUE]
  /\ storeDisposers = {}
  /\ lastUnsub = [none |-> TRUE]
  /\ build = ""

\* No cell has been created.
NoParticle ==
  /\ state = 0
  /\ subscribers = <<>>
  /\ cursor = 0
  /\ debug = FALSE
  /\ history = <<>>
  /\ stack = <<>>
  /\ subscriptions = {}
  /\ last = [none |-> TRUE]
  /\ trip = [none |-> TRUE]
  /\ callbacks = "passive"
  /\ observe = {}

(* ------------------------------ helpers ------------------------------- *)

Range(s) == {s[i] : i \in 1..Len(s)}

\* h[i] of the source (0-based); undefined beyond the end.
At(h, i) == IF i >= 0 /\ i < Len(h) THEN h[i + 1] ELSE Undefined

Min(a, b) == IF a <= b THEN a ELSE b

\* A splice that keeps the entry at start.
SpliceKeepsNext(h, start) == SubSeq(h, 1, Min(start + 1, Len(h)))

\* A splice that drops nothing.
SpliceKeepsAll(h, start) == h

\* Array.prototype.splice(start) with start >= 0: drops h[start..].
Splice(h, start) == SubSeq(h, 1, Min(start, Len(h)))

\* Array.prototype.push
Push(h, v) == Append(h, v)

\* The members of a Set, given its entry list.
Members(entries) == Range(entries) \ {Empty}

\* A has that finds nothing.
SetHasNever(entries, o) == FALSE

\* Set.prototype.has
SetHas(entries, o) == o \in Members(entries)

\* Set.prototype.add: a new member goes to the end of the entry list.
SetAdd(entries, o) == IF SetHas(entries, o) THEN entries ELSE Append(entries, o)

\* A delete that empties every entry.
SetDeleteAll(entries, o) == [i \in 1..Len(entries) |-> Empty]

\* Set.prototype.delete: the entry is emptied, the list keeps its length,
\* so a forEach in progress keeps its position.
SetDelete(entries, o) ==
  [i \in 1..Len(entries) |-> IF entries[i] = o THEN Empty ELSE entries[i]]

\* A clear that empties the first entry only.
SetClearFirst(entries) ==
  [i \in 1..Len(entries) |-> IF i = 1 THEN Empty ELSE entries[i]]

\* Set.prototype.clear: every entry is emptied.
SetClear(entries) == [i \in 1..Len(entries) |-> Empty]

\* The entry list without its emptied entries.
RECURSIVE Compact(_)
Compact(entries) ==
  IF entries = <<>> THEN <<>>
  ELSE IF Head(entries) = Empty THEN Compact(Tail(entries))
       ELSE <<Head(entries)>> \o Compact(Tail(entries))

\* Emptied entries are only observable by a forEach in progress: with none
\* running the list is kept compact.
Settle(entries, stk) == IF stk = <<>> THEN Compact(entries) ELSE entries

\* The index of the first non-empty entry after position idx, 0 if none.
NextEntry(entries, idx) ==
  LET later == {i \in (idx + 1)..Len(entries) : entries[i] # Empty}
  IN IF later = {} THEN 0 ELSE CHOOSE i \in later : \A j \in later : i <= j

(* ----------------------- Particle: pure getters ----------------------- *)

\* An identity test that never finds two values identical.
ObjectIsNever(a, b) == FALSE

\* Object.is on references.
ObjectIs(a, b) == a = b

\* A cell that keeps a history whatever its debug option.
KeepsHistoryAlways == TRUE

\* publish keeps a history only in a debug cell.
KeepsHistory == debug

\* A canUndo that does not look at the cursor.
CanUndoAtStart == debug

CanUndo == IF ~debug THEN FALSE ELSE cursor > 0

CanRedo == IF ~debug THEN FALSE ELSE cursor < Len(history) - 1

Forward ==
  IF ~debug THEN Undefined
  ELSE IF cursor + 1 >= Len(history) THEN Undefined
       ELSE At(history, cursor + 1)

Backward ==
  IF ~debug THEN Undefined
  ELSE IF cursor - 1 = 0 THEN state
       ELSE IF cursor - 1 > 0 THEN At(history, cursor - 1)
            ELSE Undefined

(* ------------------------- Particle: call stack ----------------------- *)

Top == stack[Len(stack)]

\* A call of the cell's interface comes from outside (no call in progress)
\* or from the subscriber callback that is running.
CanCall ==
  IF stack = <<>> THEN TRUE ELSE callbacks = "calling" /\ Top.cur # 0

\* A call that starts a notification pass or an immediate callback nests.
CanNest == Len(stack) < MaxDepth

\* A frame's record of its pass: the members when it began (snap), the
\* callbacks it has called and with what (calls), those that threw.
NotifyFrame ==
  [kind |-> "notify", idx |-> 0, cur |-> 0,
   snap |-> IF "pass" \in observe THEN Members(subscribers) ELSE {},
   calls |-> <<>>, args |-> <<>>, threw |-> {}]

ImmediateFrame(o) ==
  [kind |-> "immediate", idx |-> 0, cur |-> o,
   snap |-> IF "pass" \in observe THEN {o} ELSE {},
   calls |-> IF "pass" \in observe THEN <<o>> ELSE <<>>,
   args |-> IF "done" \in observe THEN <<state>> ELSE <<>>,
   threw |-> {}]

\* The record of a call: what it was given and the cell it found.
CallRecord(op, arg, notified) ==
  IF "call" \in observe
  THEN [op |-> op, arg |-> arg, state |-> state, cursor |-> cursor,
        history |-> history, notified |-> notified, depth |-> Len(stack),
        members |-> IF "done" \in observe THEN Compact(subscribers)
                    ELSE <<>>,
        pass |-> None,
        prev |-> IF last = None \/ "done" \in observe THEN None
                 ELSE [op |-> last.op, arg |-> last.arg,
                       notified |-> last.notified]]
  ELSE None

\* The cell as the undo/redo sequence found it.
CellNow == [state |-> state, cursor |-> cursor, history |-> history]

NoTrip == [pre |-> None, undos |-> 0, redos |-> 0]

(* --------------------------- Particle: Init --------------------------- *)

\* new Particle(initialValue, debug)
InitParticle(cb, obs, initialValues) ==
  /\ callbacks = cb
  /\ observe = obs
  /\ debug \in BOOLEAN
  /\ state \in initialValues
  /\ subscribers = <<>>
  /\ cursor = 0
  /\ history = IF debug THEN <<state>> ELSE <<>>
  /\ stack = <<>>
  /\ subscriptions = {}
  /\ last = None
  /\ trip = NoTrip

(* -------------------------- Particle: actions ------------------------- *)

\* publish(value)
Publish(v) ==
  /\ CanCall
  /\ IF ~ObjectIs(state, v)
     THEN /\ CanNest
          /\ state' = v
          /\ IF KeepsHistory
             THEN /\ Len(Splice(history, cursor + 1)) < MaxHist
                  /\ history' = Push(Splice(history, cursor + 1), v)
                  /\ cursor' = Len(history') - 1
             ELSE UNCHANGED <<history, cursor>>
          /\ stack' = Append(stack, NotifyFrame)
          /\ last' = CallRecord("publish", v, TRUE)
          /\ trip' = NoTrip
     ELSE /\ UNCHANGED <<state, history, cursor, stack, trip>>
          /\ last' = CallRecord("publish", v, FALSE)
  /\ UNCHANGED <<subscribers, debug, subscriptions, callbacks, observe>>

\* An undo() that moves the cursor and forgets the value.
UndoStale ==
  /\ CanCall
  /\ IF CanUndo
     THEN /\ CanNest
          /\ cursor' = cursor - 1
          /\ stack' = Append(stack, NotifyFrame)
          /\ last' = CallRecord("undo", 0, TRUE)
          /\ trip' = NoTrip
          /\ UNCHANGED state
     ELSE /\ UNCHANGED <<cursor, state, stack, trip>>
          /\ last' = CallRecord("undo", 0, FALSE)
  /\ UNCHANGED <<subscribers, debug, history, subscriptions,
                 callbacks, observe>>

\* undo()
Undo ==
  /\ CanCall
  /\ IF CanUndo
     THEN /\ CanNest
          /\ cursor' = cursor - 1
          /\ state' = At(history, cursor')
          /\ stack' = Append(stack, NotifyFrame)
          /\ last' = CallRecord("undo", 0, TRUE)
          /\ trip' = IF "trip" \notin observe THEN NoTrip
                     ELSE IF trip.pre # None /\ trip.redos = 0
                          THEN [trip EXCEPT !.undos = @ + 1]
                          ELSE [pre |-> CellNow, undos |-> 1, redos |-> 0]
     ELSE /\ UNCHANGED <<cursor, state, stack, trip>>
          /\ last' = CallRecord("undo", 0, FALSE)
  /\ UNCHANGED <<subscribers, debug, history, subscriptions,
                 callbacks, observe>>

\* A redo that reads the entry two places on.
RedoCursorSkips == cursor + 2

\* this.#cursor++ in redo
RedoCursor == cursor + 1

\* redo()
Redo ==
  /\ CanCall
  /\ IF CanRedo
     THEN /\ CanNest
          /\ cursor' = RedoCursor
          /\ state' = At(history, cursor')
          /\ stack' = Append(stack, NotifyFrame)
          /\ last' = CallRecord("redo", 0, TRUE)
          /\ trip' = IF trip.pre # None /\ trip.redos < trip.undos
                     THEN [trip EXCEPT !.redos = @ + 1]
                     ELSE NoTrip
     ELSE /\ UNCHANGED <<cursor, state, stack, trip>>
          /\ last' = CallRecord("redo", 0, FALSE)
  /\ UNCHANGED <<subscribers, debug, history, subscriptions,
                 callbacks, observe>>

\* A subscribe that never calls the observer itself.
ImmediatelyNever(immediate) == FALSE

\* if (immediate) observer(this.#state)
Immediately(immediate) == immediate

\* subscribe(observer, immediate)
Subscribe(o, immediate) ==
  /\ CanCall
  /\ IF ~SetHas(subscribers, o)
     THEN /\ Len(subscribers) < MaxEntries
          /\ subscribers' = SetAdd(subscribers, o)
          /\ IF Immediately(immediate)
             THEN /\ CanNest
                  /\ stack' = Append(stack, ImmediateFrame(o))
                  /\ UNCHANGED subscriptions
             ELSE /\ subscriptions' = subscriptions \cup {o}
                  /\ UNCHANGED stack
          /\ last' = CallRecord("subscribe", o, immediate)
     ELSE /\ UNCHANGED <<subscribers, stack>>
          /\ subscriptions' = subscriptions \cup {o}
          /\ last' = CallRecord("subscribe", o, immediate)
  /\ UNCHANGED <<state, cursor, debug, history, trip,
                 callbacks, observe>>

\* The unsubscribe() of a handle that subscribe(observer) returned.
Unsubscribe(o) ==
  /\ CanCall
  /\ o \in subscriptions
  /\ subscribers' = Settle(SetDelete(subscribers, o), stack)
  /\ last' = CallRecord("unsubscribe", o, FALSE)
  /\ UNCHANGED <<state, cursor, debug, history, stack, subscriptions,
                 trip, callbacks, observe>>

\* unsubscribe(): removes every subscriber.
UnsubscribeAll ==
  /\ CanCall
  /\ subscribers' = Settle(SetClear(subscribers), stack)
  /\ last' = CallRecord("unsubscribeAll", 0, FALSE)
  /\ UNCHANGED <<state, cursor, debug, history, stack, subscriptions,
                 trip, callbacks, observe>>

\* The frame below the top one, once the top one has returned.
Pop(stk) == SubSeq(stk, 1, Len(stk) - 1)

\* The record of the call once the pass or callback it started is over;
\* escaped says whether the exception of the callback left the call.
Over(frame, escaped) ==
  IF "done" \in observe /\ last # None
  THEN [last EXCEPT !.pass = [kind |-> frame.kind, calls |-> frame.calls,
                              args |-> frame.args, threw |-> frame.threw,
                              escaped |-> escaped]]
  ELSE last

\* A callback that is given the entry before the cursor.
CallbackArgStale ==
  IF debug /\ cursor > 0 THEN At(history, cursor - 1) ELSE Undefined

\* callback(this.#state): what a callback of a pass is called with.
CallbackArg == state

\* One turn of this.#subscribers.forEach in notifySubscribers: the next
\* entry of the live Set is called with the current state, or the pass ends.
NotifyStep ==
  /\ stack # <<>>
  /\ Top.kind = "notify"
  /\ Top.cur = 0
  /\ LET i == NextEntry(subscribers, Top.idx)
     IN IF i # 0
        THEN /\ stack' = [stack EXCEPT ![Len(stack)] =
                            [@ EXCEPT !.idx = i, !.cur = subscribers[i],
                                      !.calls =
                                        IF "pass" \in observe
                                        THEN Append(@, subscribers[i])
                                        ELSE @,
                                      !.args =
                                        IF "done" \in observe
                                        THEN Append(@, CallbackArg)
                                        ELSE @]]
             /\ UNCHANGED <<subscribers, last>>
        ELSE /\ stack' = Pop(stack)
             /\ subscribers' = Settle(subscribers, stack')
             /\ last' = Over(Top, FALSE)
  /\ UNCHANGED <<state, cursor, debug, history, subscriptions, trip,
                 callbacks, observe>>

\* The running callback returns.  A subscribe(observer, true) that was
\* waiting for it returns its handle.
ObserverReturn ==
  /\ stack # <<>>
  /\ Top.cur # 0
  /\ IF Top.kind = "notify"
     THEN /\ stack' = [stack EXCEPT ![Len(stack)] = [@ EXCEPT !.cur = 0]]
          /\ UNCHANGED <<subscribers, subscriptions, last>>
     ELSE /\ stack' = Pop(stack)
          /\ subscribers' = Settle(subscribers, stack')
          /\ subscriptions' = subscriptions \cup {Top.cur}
          /\ last' = Over(Top, FALSE)
  /\ UNCHANGED <<state, cursor, debug, history, trip, callbacks, observe>>

\* A cell that catches no exception of a callback.
CatchesNothing(kind) == FALSE

\* The calls of callbacks that are made inside try/catch: those of
\* notifySubscribers, not the immediate one of subscribe.
Catches(kind) == kind = "notify"

\* The running callback throws.  notifySubscribers catches it and goes on
\* with the next subscriber; subscribe(observer, true) lets it through to
\* its caller, who gets no handle.
ObserverThrow ==
  /\ stack # <<>>
  /\ Top.cur # 0
  /\ IF Catches(Top.kind)
     THEN /\ stack' = [stack EXCEPT ![Len(stack)] =
                         [@ EXCEPT !.cur = 0,
                                   !.threw = IF "pass" \in observe
                                             THEN @ \cup {Top.cur} ELSE @]]
          /\ UNCHANGED <<subscribers, last>>
     ELSE /\ stack' = Pop(stack)
          /\ subscribers' = Settle(subscribers, stack')
          /\ last' = Over([Top EXCEPT !.threw = IF "pass" \in observe
                                                 THEN @ \cup {Top.cur}
                                                 ELSE @],
                          TRUE)
  /\ UNCHANGED <<state, cursor, debug, history, subscriptions,
                 trip, callbacks, observe>>

NextParticle ==
  \/ \E v \in Values : Publish(v) /\ UNCHANGED <<storeVars, atomVars>>
  \/ Undo /\ UNCHANGED <<storeVars, atomVars>>
  \/ Redo /\ UNCHANGED <<storeVars, atomVars>>
  \/ \E o \in Observers, immediate \in BOOLEAN :
        Subscribe(o, immediate) /\ UNCHANGED <<storeVars, atomVars>>
  \/ \E o \in Observers : Unsubscribe(o) /\ UNCHANGED <<storeVars, atomVars>>
  \/ UnsubscribeAll /\ UNCHANGED <<storeVars, atomVars>>
  \/ NotifyStep /\ UNCHANGED <<storeVars, atomVars>>
  \/ ObserverReturn /\ UNCHANGED <<storeVars, atomVars>>
  \/ ObserverThrow /\ UNCHANGED <<storeVars, atomVars>>

\* Top-level calls on a cell whose subscribers are passive, each call recorded.
InitCalls ==
  InitParticle("passive", {"call"}, Values) /\ NoStore /\ NoAtom

SpecParticle == InitCalls /\ [][NextParticle]_vars

\* The same, each call recorded with the pass it started (and not with the
\* call before it), the initial value named 1.
InitObserved ==
  InitParticle("passive", {"call", "pass", "done"}, {1})
    /\ NoStore /\ NoAtom

SpecObserved == InitObserved /\ [][NextParticle]_vars

\* The same, the undo/redo sequences recorded.
InitTimeTravel ==
  InitParticle("passive", {"trip"}, Values) /\ NoStore /\ NoAtom

SpecTimeTravel == InitTimeTravel /\ [][NextParticle]_vars

\* Subscribers that call the cell while they are being notified.  The values
\* are interchangeable identities: the initial one is named 1.
InitReentrant ==
  InitParticle("calling", {}, {1}) /\ NoStore /\ NoAtom

SpecReentrant == InitReentrant /\ [][NextParticle]_vars

\* The same, each notification pass recorded in its frame.
InitPass ==
  InitParticle("calling", {"pass"}, {1}) /\ NoStore /\ NoAtom

SpecPass == InitPass /\ [][NextParticle]_vars

\* The same, each frame recording what its callbacks were called with.
InitLive ==
  InitParticle("calling", {"done"}, {1}) /\ NoStore /\ NoAtom

SpecLive == InitLive /\ [][NextParticle]_vars

(* ------------------------- Particle: properties ----------------------- *)

Called(op) == last # None /\ last.op = op

\* C1: publish(v) with v identical (Object.is) to the current value is a
\* no-op: it starts no notification, appends no history entry and leaves
\* value and cursor as they were; so of two publish(v) in a row, the first
\* of which notified, the second notifies nobody.
C1_IdentityShortCircuit ==
  /\ (Called("publish") /\ last.arg = last.state) =>
        /\ ~last.notified
        /\ Len(stack) = last.depth
        /\ state = last.state
        /\ cursor = last.cursor
        /\ history = last.history
  /\ (Called("publish") /\ last.prev # None /\ last.prev.op = "publish"
        /\ last.prev.arg = last.arg) =>
        /\ ~last.notified
        /\ stack = <<>>

\* C1 witness: publish(v) was called twice in a row on a cell with a
\* subscriber; the first call changed the value and notified.
C1_Witness ==
  /\ Called("publish")
  /\ last.prev # None
  /\ last.prev.op = "publish"
  /\ last.prev.arg = last.arg
  /\ last.prev.notified
  /\ Members(subscribers) # {}
  /\ debug

\* C8: with history enabled, a publish of a value not identical to the
\* current one drops the history entries after the cursor, appends the
\* value and moves the cursor to the last index, so nothing can be redone.
C8_PublishTruncatesHistory ==
  (debug /\ Called("publish") /\ last.arg # last.state) =>
     /\ history = Append(SubSeq(last.history, 1, last.cursor + 1), last.arg)
     /\ cursor = Len(history) - 1
     /\ ~CanRedo
     /\ state = last.arg

\* C8 witness: a legal undo() was followed by a publish of another value
\* while entries lay after the cursor.
C8_Witness ==
  /\ debug
  /\ Called("publish")
  /\ last.arg # last.state
  /\ last.prev # None
  /\ last.prev.op = "undo"
  /\ last.prev.notified
  /\ last.cursor + 1 < Len(last.history)

\* C10: with history disabled, history stays empty, canUndo and canRedo are
\* false, forward() and backward() are undefined, and undo()/redo() neither
\* change the value nor notify anybody.
C10_HistoryDisabled ==
  ~debug =>
     /\ history = <<>>
     /\ ~CanUndo
     /\ ~CanRedo
     /\ Forward = Undefined
     /\ Backward = Undefined
     /\ (Called("undo") \/ Called("redo")) =>
           /\ ~last.notified
           /\ Len(stack) = last.depth
           /\ state = last.state

\* C10 witness: undo() was called on a cell without history right after a
\* publish that changed its value.
C10_Witness ==
  /\ ~debug
  /\ Called("undo")
  /\ last.prev # None
  /\ last.prev.op = "publish"
  /\ last.prev.notified
  /\ Members(subscribers) # {}

\* C4: n legal undo() calls followed by n redo() calls give back the value
\* and the cursor that held before them, the history untouched; after the n
\* undos the value is the entry n places before (A after two undos from
\* <<A, B, C>>).
C4_UndoRedoRoundTrip ==
  trip.pre # None =>
     /\ history = trip.pre.history
     /\ cursor = trip.pre.cursor - trip.undos + trip.redos
     /\ state = At(trip.pre.history, trip.pre.cursor - trip.undos + trip.redos)
     /\ (trip.redos = trip.undos) => CellNow = trip.pre

\* C4 witness: from history <<A, B, C>> (pairwise distinct) at C, two undos
\* and then two redos were made.
C4_Witness ==
  /\ trip.pre # None
  /\ trip.undos = 2
  /\ trip.redos = 2
  /\ Len(trip.pre.history) = 3
  /\ trip.pre.cursor = 2
  /\ Cardinality(Range(trip.pre.history)) = 3
  /\ state = At(trip.pre.history, 2)

\* C36: in a history-enabled cell no two adjacent history entries are
\* identical, whatever was published, undone and redone; an undo() or
\* redo() that was legal leaves a value other than the one it found.
C36_NoAdjacentDuplicates ==
  debug =>
     /\ \A i \in 1..(Len(history) - 1) : ~ObjectIs(history[i], history[i + 1])
     /\ ((Called("undo") \/ Called("redo")) /\ last.notified) =>
           state # last.state

\* C36 witness: a publish that changed the value was followed by a legal
\* undo(), which left the value of the entry before.
C36_Witness ==
  /\ debug
  /\ Called("undo")
  /\ last.notified
  /\ last.prev # None
  /\ last.prev.op = "publish"
  /\ last.prev.notified
  /\ Len(history) = 2
  /\ last.history = history
  /\ state # last.state

\* A notification pass calls its next subscriber.
Invoked ==
  /\ stack # <<>>
  /\ Top.kind = "notify"
  /\ Top.cur = 0
  /\ Len(stack') = Len(stack)
  /\ Top'.cur # 0

\* C37: whenever a notification pass calls a subscriber, the argument is
\* the value the cell has at that instant, also when a subscriber called
\* earlier in the pass has published another value since the pass began.
C37_LiveValue ==
  [][Invoked => /\ Top'.args = Append(Top.args, state)
                /\ state' = state]_vars

\* C37 witness: a pass has called two subscribers with different values:
\* the first one published while it was being called.
C37_Witness ==
  /\ stack # <<>>
  /\ stack[1].kind = "notify"
  /\ Len(stack[1].args) = 2
  /\ stack[1].args[1] # stack[1].args[2]
  /\ stack[1].args[2] = state

\* C34: in a history-enabled cell backward() returns the entry before the
\* cursor, the value undo() would make current, and undefined at cursor 0;
\* forward() returns the entry after the cursor, the value redo() would
\* make current, and undefined when there is none.
C34_HistoryPeeks ==
  debug =>
     /\ Backward = IF cursor > 0 THEN At(history, cursor - 1) ELSE Undefined
     /\ Forward = IF cursor + 1 < Len(history) THEN At(history, cursor + 1)
                  ELSE Undefined

\* C9: in a history-enabled cell the cursor is an index of the history and
\* the entry under it is the current value, whatever was called and from
\* where (also from inside subscriber callbacks).
C9_HistoryInvariant ==
  debug =>
     /\ 0 <= cursor
     /\ cursor < Len(history)
     /\ At(history, cursor) = state

\* C9 witness: a subscriber called from a notification pass made a call
\* that started a second pass, with entries on both sides of the cursor.
C9_Witness ==
  /\ debug
  /\ Len(stack) >= 2
  /\ stack[1].kind = "notify"
  /\ stack[2].kind = "notify"
  /\ Len(history) >= 3
  /\ cursor = 1

\* C7: a notification pass calls the subscribers the Set held when the pass
\* began: one added during the pass is not called in it, and one removed
\* during the pass before its turn is still called in it.
C7_SnapshotIteration ==
  \A k \in 1..Len(stack) :
     stack[k].kind = "notify" =>
        /\ Range(stack[k].calls) \subseteq stack[k].snap
        /\ (k = Len(stack) /\ stack[k].cur = 0
              /\ NextEntry(subscribers, stack[k].idx) = 0) =>
              stack[k].snap \subseteq Range(stack[k].calls)

\* C11: undo() with the cursor at 0 and redo() with the cursor at the last
\* index of the history do nothing: value, cursor and history stay as they
\* were and no notification pass starts.
C11_IllegalTimeTravel ==
  /\ (Called("undo") /\ last.cursor = 0) =>
        /\ ~last.notified
        /\ Len(stack) = last.depth
        /\ state = last.state
        /\ cursor = last.cursor
        /\ history = last.history
  /\ (Called("redo") /\ last.cursor = Len(last.history) - 1) =>
        /\ ~last.notified
        /\ Len(stack) = last.depth
        /\ state = last.state
        /\ cursor = last.cursor
        /\ history = last.history

\* C11 witness: in a cell with history and a subscriber an undo() brought
\* the cursor to 0 and undo() was called again.
C11_Witness ==
  /\ debug
  /\ Called("undo")
  /\ last.cursor = 0
  /\ Len(last.history) >= 2
  /\ last.prev # None
  /\ last.prev.op = "undo"
  /\ last.prev.notified
  /\ Members(subscribers) # {}

\* The observer of the last call was not registered when the call was made.
NewObserver == last.arg \notin Range(last.members)

PassOver ==
  /\ last # None
  /\ last.op \in {"publish", "undo", "redo"}
  /\ last.notified
  /\ last.pass # None

\* How often a pass called an observer.
TimesCalled(pass, o) ==
  Cardinality({i \in 1..Len(pass.calls) : pass.calls[i] = o})

\* C13: subscribe of an observer that is already registered does nothing,
\* whatever its immediate argument: the observer is not called and the Set
\* holds it once, as before; and every pass a value change starts calls each
\* registered observer exactly once.
C13_SubscriberDedup ==
  /\ (Called("subscribe") /\ ~NewObserver) =>
        /\ Len(stack) = last.depth
        /\ last.pass = None
        /\ Compact(subscribers) = last.members
        /\ Cardinality({i \in 1..Len(subscribers) :
                          subscribers[i] = last.arg}) = 1
  /\ PassOver =>
        \A o \in Range(last.members) : TimesCalled(last.pass, o) = 1

\* C13 witness: subscribe(observer, true) was called for an observer that
\* was registered already, in a cell whose value had changed before.
C13_Witness ==
  /\ Called("subscribe")
  /\ ~NewObserver
  /\ last.notified
  /\ debug
  /\ last.cursor >= 1

\* C15: unsubscribe() without a handle removes every observer and leaves
\* value, cursor and history as they were, calling nobody; a later publish,
\* undo or redo calls only observers registered when it is made, so none
\* when nobody has subscribed since.
C15_UnsubscribeAll ==
  /\ Called("unsubscribeAll") =>
        /\ Members(subscribers) = {}
        /\ state = last.state
        /\ cursor = last.cursor
        /\ history = last.history
        /\ Len(stack) = last.depth
        /\ last.pass = None
  /\ PassOver =>
        /\ Range(last.pass.calls) \subseteq Range(last.members)
        /\ last.members = <<>> => last.pass.calls = <<>>

\* C15 witness: unsubscribe() was called on a cell with history whose value
\* had changed and that had two observers.
C15_Witness ==
  /\ Called("unsubscribeAll")
  /\ Len(last.members) >= 2
  /\ debug
  /\ last.cursor >= 1

\* C16: a pass in which a subscriber threw still called every registered
\* subscriber, each with the new value; the exception did not leave the
\* publish, undo or redo; and value, cursor and history are those the call
\* set before it notified.
C16_ExceptionIsolation ==
  (PassOver /\ last.pass.threw # {}) =>
     /\ last.pass.calls = last.members
     /\ ~last.pass.escaped
     /\ \A i \in 1..Len(last.pass.args) : last.pass.args[i] = state
     /\ last.op = "publish" =>
           /\ state = last.arg
           /\ debug => history = Append(SubSeq(last.history, 1,
                                                last.cursor + 1), last.arg)
     /\ last.op = "undo" =>
           /\ cursor = last.cursor - 1
           /\ state = At(last.history, cursor)
     /\ last.op = "redo" =>
           /\ cursor = last.cursor + 1
           /\ state = At(last.history, cursor)

\* C16 witness: a publish on a cell with history and two subscribers; the
\* first one called threw, the second was called after it.
C16_Witness ==
  /\ PassOver
  /\ last.op = "publish"
  /\ debug
  /\ Len(last.pass.calls) = 2
  /\ last.pass.calls[1] \in last.pass.threw
  /\ last.pass.calls[2] \notin last.pass.threw

(* ====================== createCompositeStore ========================= *)
(* A JavaScript value is modelled by an integer: 0 is undefined, n > 0 the  *)
(* number n, and -i the reference to the object heap[i].  An object is a    *)
(* function from Keys to values, an absent property reading as undefined.   *)
(* A path string is the sequence of its characters, each key one character. *)

\* The numbers a caller may store: 1..NumNums.
NumNums == 2

\* The objects that may exist (the store's initial record has four).
MaxObjs == 6

\* The store subscriber callbacks that exist: 1..NumSubs.
NumSubs == 3

Nums == 1..NumNums

Subs == 1..NumSubs

Keys == {"a", "b", "c", "x", "y"}

Sep == "."

\* What a call that raised a TypeError gives instead of a value.
Thrown == 1000

IsRef(v) == v < 0

Obj(h, v) == h[0 - v]

EmptyObject == [k \in Keys |-> Undefined]

Root == <<>>

P_a == <<"a">>

P_ab == <<"a", Sep, "b">>

P_abc == <<"a", Sep, "b", Sep, "c">>

P_x == <<"x">>

P_xy == <<"x", Sep, "y">>

\* The paths given to $get, $set and $sub.
Paths == {Root, P_a, P_ab, P_abc, P_x, P_xy}

\* The path a subscriber callback registers at.
SubPath(s) ==
  LET at == <<P_abc, Root, Root, P_xy>> IN at[((s - 1) % Len(at)) + 1]

\* String.prototype.split("."): the keys between the separators.
RECURSIVE SplitFrom(_, _)
SplitFrom(path, key) ==
  IF path = <<>> THEN <<key>>
  ELSE IF Head(path) = Sep THEN <<key>> \o SplitFrom(Tail(path), <<>>)
       ELSE SplitFrom(Tail(path), key \o <<Head(path)>>)

splitPath(path) == SplitFrom(path, <<>>)

\* value[key]: a property of an object, undefined on a number, and a
\* TypeError on undefined.
ReadKey(h, v, key) ==
  IF v = Thrown THEN Thrown
  ELSE IF IsRef(v)
       THEN IF Len(key) = 1 /\ key[1] \in Keys THEN Obj(h, v)[key[1]]
            ELSE Undefined
       ELSE IF v = Undefined THEN Thrown ELSE Undefined

\* for (const key of keys) state = state[key]
RECURSIVE resolveSegment(_, _, _)
resolveSegment(h, v, keys) ==
  IF keys = <<>> THEN v
  ELSE resolveSegment(h, ReadKey(h, v, Head(keys)), Tail(keys))

resolvePath(h, v, path) == resolveSegment(h, v, splitPath(path))

\* $get(path)
Get(h, root, path) == IF path # <<>> THEN resolvePath(h, root, path) ELSE root

\* A path all of whose keys but the last lead through objects.
ValidPath(h, root, path) ==
  /\ path # <<>>
  /\ LET keys == splitPath(path)
     IN /\ \A i \in 1..Len(keys) : Len(keys[i]) = 1 /\ keys[i][1] \in Keys
        /\ \A i \in 0..(Len(keys) - 1) :
             LET v == resolveSegment(h, root, SubSeq(keys, 1, i))
             IN v # Thrown /\ IsRef(v)

\* The path of the parent of a valid path's last key.
RECURSIVE JoinKeys(_)
JoinKeys(keys) ==
  IF keys = <<>> THEN <<>>
  ELSE IF Len(keys) = 1 THEN keys[1]
       ELSE keys[1] \o <<Sep>> \o JoinKeys(Tail(keys))

ParentPath(path) ==
  LET keys == splitPath(path) IN JoinKeys(SubSeq(keys, 1, Len(keys) - 1))

Depth(path) == IF path = <<>> THEN 0 ELSE Len(splitPath(path))

\* createSnapshot(state): a new object with the own properties of state.
createSnapshot(h, root) == Append(h, Obj(h, root))

\* The object setProperty starts its walk from: the snapshot just made.
AssignTarget(h, root) == 0 - Len(h)

\* A walk that stays on the snapshot.
WalkNowhere(h, v, segments) == v

\* for (const key of segments) current = current[key]
Walk(h, v, segments) == resolveSegment(h, v, segments)

\* getSubscribersByPath(path): the Set kept for the path.
getSubscribersByPath(path) == storeSubscribers[path]

\* A forEach that goes through the Set from its last member to its first.
NotifyCallsReversed(entries, value, path) ==
  LET live == Compact(entries)
  IN [i \in 1..Len(live) |->
        [sub |-> live[Len(live) + 1 - i], at |-> path, value |-> value]]

\* subscribers.forEach((subscriber) => subscriber(value)) for the Set of a
\* path: the calls made, in order.
RECURSIVE NotifyCalls(_, _, _)
NotifyCalls(entries, value, path) ==
  IF entries = <<>> THEN <<>>
  ELSE IF Head(entries) = Empty THEN NotifyCalls(Tail(entries), value, path)
       ELSE <<[sub |-> Head(entries), at |-> path, value |-> value]>>
            \o NotifyCalls(Tail(entries), value, path)

\* Whether two roots hold the same values at the same paths.
SameValues(h1, v1, h2, v2) ==
  \A p \in Paths \ {Root} :
     LET a == Get(h1, v1, p)
         b == Get(h2, v2, p)
     IN IF IsRef(a) THEN IsRef(b) ELSE a = b

\* A setState that calls nobody when the new state holds what the state
\* held.
setStateCallsDiffed(h, value, path) ==
  IF SameValues(h, value, heap, storeState) THEN <<>>
  ELSE NotifyCalls(getSubscribersByPath(Root), value, Root)

\* setState(value, path): the calls it makes once state is value.
\* setProperty and setStateAction call it without a path.
setStateCalls(h, value, path) ==
  IF path = <<>>
  THEN NotifyCalls(getSubscribersByPath(Root), value, Root)
  ELSE NotifyCalls(getSubscribersByPath(path), resolvePath(h, value, path), path)

\* The path setProperty hands to setState: none (setState(snapshot)).
SetStatePath(path) == Root

\* What a set found and did.
SetRecord(path, value, threw, calls) ==
  [path |-> path, value |-> value, threw |-> threw, calls |-> calls,
   root |-> storeState, heap |-> heap]

(* ----------------------------- Store: Init ---------------------------- *)

\* createStore({a: {b: {c: 1}}, x: {y: 1}})
InitialHeap ==
  << [EmptyObject EXCEPT !["a"] = -2, !["x"] = -4],
     [EmptyObject EXCEPT !["b"] = -3],
     [EmptyObject EXCEPT !["c"] = 1],
     [EmptyObject EXCEPT !["y"] = 1] >>

\* createStore of one of some builds
InitStoreBuilt(builds) ==
  /\ build \in builds
  /\ heap = InitialHeap
  /\ storeState = -1
  /\ storeSubscribers = [p \in Paths |-> <<>>]
  /\ lastSet = None
  /\ captured = None
  /\ storeDisposers = {}
  /\ lastUnsub = None

\* createStore of part_000
InitStore == InitStoreBuilt({"composite"})

(* ---------------------------- Store: actions -------------------------- *)

\* $set(path)(value) with a value that is no function, for a path:
\* setProperty(value, path).
SetProperty(value, path) ==
  /\ path # <<>>
  /\ Len(heap) < MaxObjs
  /\ LET keys == splitPath(path)
         pivot == keys[Len(keys)]
         segments == SubSeq(keys, 1, Len(keys) - 1)
         h1 == createSnapshot(heap, storeState)
         snapshot == 0 - Len(h1)
         current == Walk(h1, AssignTarget(h1, storeState), segments)
     IN IF current # Thrown /\ IsRef(current)
        THEN LET h2 == [h1 EXCEPT ![0 - current] =
                          [@ EXCEPT ![pivot[1]] = value]]
             IN /\ heap' = h2
                /\ storeState' = snapshot
                /\ lastSet' = SetRecord(path, value, FALSE,
                                 setStateCalls(h2, snapshot, SetStatePath(path)))
        ELSE /\ lastSet' = SetRecord(path, value, TRUE, <<>>)
             /\ UNCHANGED <<heap, storeState>>
  /\ lastUnsub' = None
  /\ UNCHANGED <<storeSubscribers, captured, storeDisposers, build>>

\* $set()(value) with a new record {a: n}: setState(value).
SetRoot(n) ==
  /\ Len(heap) < MaxObjs
  /\ LET h1 == Append(heap, [EmptyObject EXCEPT !["a"] = n])
         value == 0 - Len(h1)
     IN /\ heap' = h1
        /\ storeState' = value
        /\ lastSet' = SetRecord(Root, value, FALSE, setStateCalls(h1, value, Root))
  /\ lastUnsub' = None
  /\ UNCHANGED <<storeSubscribers, captured, storeDisposers, build>>

\* $sub(subscriber, path).  The runs explored either subscribe or keep a
\* root (what a set does to the objects does not depend on the subscribers).
Sub(s, path) ==
  /\ captured = None
  /\ storeSubscribers' =
       [storeSubscribers EXCEPT ![path] = SetAdd(getSubscribersByPath(path), s)]
  /\ storeDisposers' = storeDisposers \cup {s}
  /\ lastSet' = None
  /\ lastUnsub' = None
  /\ UNCHANGED <<heap, storeState, captured, build>>

\* The function $sub(subscriber, path) returned, called for the first time
\* or again.
Unsub(s, path) ==
  /\ s \in storeDisposers
  /\ storeSubscribers' =
       [storeSubscribers EXCEPT ![path] =
          Compact(SetDelete(getSubscribersByPath(path), s))]
  /\ lastSet' = None
  /\ lastUnsub' = [sub |-> s, path |-> path, found |-> storeSubscribers]
  /\ UNCHANGED <<heap, storeState, captured, storeDisposers, build>>

\* const before = $get(), kept by the caller.
Capture ==
  /\ captured = None
  /\ storeDisposers = {}
  /\ captured' = [ref |-> Get(heap, storeState, Root), heap |-> heap]
  /\ UNCHANGED <<heap, storeState, storeSubscribers, lastSet,
                 storeDisposers, lastUnsub, build>>

NextStore ==
  \/ \E v \in Nums, path \in Paths \ {Root} :
        SetProperty(v, path) /\ UNCHANGED <<cellVars, atomVars>>
  \/ \E n \in Nums : SetRoot(n) /\ UNCHANGED <<cellVars, atomVars>>
  \/ \E s \in Subs : Sub(s, SubPath(s)) /\ UNCHANGED <<cellVars, atomVars>>
  \/ \E s \in Subs : Unsub(s, SubPath(s)) /\ UNCHANGED <<cellVars, atomVars>>
  \/ Capture /\ UNCHANGED <<cellVars, atomVars>>

InitStoreOnly == InitStore /\ NoParticle /\ NoAtom

SpecStore == InitStoreOnly /\ [][NextStore]_vars

(* ------------------ Store: setters given a function ------------------ *)

\* A function given to a setter, when it is found stored as a value.
Updater == 2000

Builds == {"composite", "draft", "class"}

\* The arguments of a setter for a path: a number or prev => prev + 1.
PathActions == [value : Nums] \cup [fn : {"inc"}]

isSetStateActionFunction(value) == "fn" \in DOMAIN value

\* undefined + 1
NotANumber == 3000

\* value(current) for prev => prev + 1
CallUpdater(value, current) ==
  IF current \in Nums THEN current + 1 ELSE NotANumber

\* A setProperty that sets the state to its snapshot before it walks.
setPropertyEager(h, root, value, path) ==
  LET keys == splitPath(path)
      pivot == keys[Len(keys)]
      segments == SubSeq(keys, 1, Len(keys) - 1)
      h1 == createSnapshot(h, root)
      snapshot == 0 - Len(h1)
      current == Walk(h1, AssignTarget(h1, root), segments)
  IN IF current # Thrown /\ IsRef(current)
     THEN [heap |-> [h1 EXCEPT ![0 - current] =
                       [@ EXCEPT ![pivot[1]] = value]],
           state |-> snapshot, threw |-> FALSE]
     ELSE [heap |-> h1, state |-> snapshot, threw |-> TRUE]

\* setProperty(value, path) for a path, on given objects and state: the
\* objects and the state it leaves, and whether it threw.
setProperty(h, root, value, path) ==
  LET keys == splitPath(path)
      pivot == keys[Len(keys)]
      segments == SubSeq(keys, 1, Len(keys) - 1)
      h1 == createSnapshot(h, root)
      snapshot == 0 - Len(h1)
      current == Walk(h1, AssignTarget(h1, root), segments)
  IN IF current # Thrown /\ IsRef(current)
     THEN [heap |-> [h1 EXCEPT ![0 - current] =
                       [@ EXCEPT ![pivot[1]] = value]],
           state |-> snapshot, threw |-> FALSE]
     ELSE [heap |-> h, state |-> root, threw |-> TRUE]

\* Whether the setter of the build reads the current value at the path:
\* createSetStatePathAction of part_000 does for a function, the setters of
\* store.ts always do.
ReadsCurrent(value) ==
  IF build = "composite" THEN isSetStateActionFunction(value) ELSE TRUE

\* Whether the setter calls setProperty(value, path) with the function
\* itself once it has stored value(current): setStateAction of store.ts
\* does not return after the first setProperty.
StoresAgain(value) == build = "draft" /\ isSetStateActionFunction(value)

\* The snapshots a call makes.
Snapshots(value) == IF StoresAgain(value) THEN 2 ELSE 1

ActionRecord(path, value, threw, calls, applied) ==
  [path |-> path, value |-> value, threw |-> threw, calls |-> calls,
   root |-> storeState, heap |-> heap, applied |-> applied]

\* $set(path)(value) with a number or a function
SetPathAction(value, path) ==
  /\ path # <<>>
  /\ IsRef(storeState)
  /\ Len(heap) + Snapshots(value) <= MaxObjs
  /\ isSetStateActionFunction(value) =>
        IF ValidPath(heap, storeState, path)
        THEN resolvePath(heap, storeState, path) \in Nums
        ELSE TRUE
  /\ LET current == resolvePath(heap, storeState, path)
         applied == IF isSetStateActionFunction(value) THEN <<current>>
                    ELSE <<>>
         first == IF isSetStateActionFunction(value)
                  THEN CallUpdater(value, current) ELSE value.value
         r1 == setProperty(heap, storeState, first, path)
         r2 == IF StoresAgain(value) /\ ~r1.threw
               THEN setProperty(r1.heap, r1.state, Updater, path) ELSE r1
     IN IF ReadsCurrent(value) /\ current = Thrown
        THEN /\ lastSet' = ActionRecord(path, value, TRUE, <<>>, <<>>)
             /\ UNCHANGED <<heap, storeState>>
        ELSE /\ heap' = r2.heap
             /\ storeState' = r2.state
             /\ lastSet' =
                  ActionRecord(path, value, r2.threw,
                     IF build = "composite" /\ ~r2.threw
                     THEN setStateCalls(r2.heap, r2.state, SetStatePath(path))
                     ELSE <<>>,
                     applied)
  /\ lastUnsub' = None
  /\ UNCHANGED <<storeSubscribers, captured, storeDisposers, build>>

\* $set()(value) with the function prev => ({a: 1}): setStateAction calls
\* it with the state; the $set() of Store is its setState, which stores
\* what it is given.
SetRootAction ==
  /\ IsRef(storeState)
  /\ Len(heap) < MaxObjs
  /\ IF build = "class"
     THEN /\ storeState' = Updater
          /\ lastSet' = ActionRecord(Root, [fn |-> "record"], FALSE, <<>>, <<>>)
          /\ UNCHANGED heap
     ELSE LET h1 == Append(heap, [EmptyObject EXCEPT !["a"] = 1])
              value == 0 - Len(h1)
          IN /\ heap' = h1
             /\ storeState' = value
             /\ lastSet' =
                  ActionRecord(Root, [fn |-> "record"], FALSE,
                     IF build = "composite"
                     THEN setStateCalls(h1, value, Root) ELSE <<>>,
                     <<storeState>>)
  /\ lastUnsub' = None
  /\ UNCHANGED <<storeSubscribers, captured, storeDisposers, build>>

NextSetAction ==
  \/ \E value \in PathActions, path \in Paths \ {Root} :
        SetPathAction(value, path) /\ UNCHANGED <<cellVars, atomVars>>
  \/ SetRootAction /\ UNCHANGED <<cellVars, atomVars>>

InitSetAction == InitStoreBuilt(Builds) /\ NoParticle /\ NoAtom

\* The store of part_000 with subscribers, its setters given numbers and
\* functions.
NextFailedWrite ==
  \/ \E value \in PathActions, path \in Paths \ {Root} :
        SetPathAction(value, path) /\ UNCHANGED <<cellVars, atomVars>>
  \/ \E s \in Subs : Sub(s, SubPath(s)) /\ UNCHANGED <<cellVars, atomVars>>

SpecFailedWrite == InitStoreOnly /\ [][NextFailedWrite]_vars

SpecSetAction == InitSetAction /\ [][NextSetAction]_vars

\* A cell without history and a store side by side; a run calls the one or
\* the other.
CellUntouched == last = None /\ stack = <<>>

StoreUntouched == InitStore

NextEither ==
  \/ StoreUntouched /\ NextParticle
  \/ CellUntouched /\ NextStore

InitBoth ==
  InitParticle("passive", {"call", "pass", "done"}, {1})
    /\ ~debug /\ InitStore /\ NoAtom

SpecBoth == InitBoth /\ [][NextEither]_vars

(* --------------------------- Store: properties ------------------------ *)

SetDone == lastSet # None /\ ~lastSet.threw

\* The calls the last set made to subscriber s for the Set of a path.
CallsTo(s, path) ==
  {i \in 1..Len(lastSet.calls) :
     lastSet.calls[i].sub = s /\ lastSet.calls[i].at = path}

\* The entries other than o, in their order.
Without(entries, o) ==
  LET Other(e) == e # o IN SelectSeq(Compact(entries), Other)

\* C14: the unsubscribe of a cell subscription and the function a store's
\* $sub returned remove their own observer and nothing else, the other
\* observers keeping their order; called again they change nothing; they
\* call nobody.  A later change calls the observers still registered (in
\* the store: the whole-record ones) and never one that was removed.
C14_Disposers ==
  /\ Called("unsubscribe") =>
        /\ Compact(subscribers) = Without(last.members, last.arg)
        /\ Len(stack) = last.depth
        /\ last.pass = None
        /\ state = last.state
  /\ PassOver => Range(last.pass.calls) = Range(last.members)
  /\ lastUnsub # None =>
        \A p \in Paths :
           storeSubscribers[p] =
             IF p = lastUnsub.path
             THEN Without(lastUnsub.found[p], lastUnsub.sub)
             ELSE lastUnsub.found[p]
  /\ SetDone =>
        /\ \A i \in 1..Len(lastSet.calls) :
              SetHas(storeSubscribers[lastSet.calls[i].at],
                     lastSet.calls[i].sub)
        /\ \A s \in Members(storeSubscribers[Root]) :
              Cardinality(CallsTo(s, Root)) = 1

\* C14 witness: the function a $sub returned was called a second time, its
\* subscriber removed already, while another subscriber was registered.
C14_Witness ==
  /\ lastUnsub # None
  /\ ~SetHas(lastUnsub.found[lastUnsub.path], lastUnsub.sub)
  /\ \E p \in Paths : Members(storeSubscribers[p]) # {}

C6_GetSetRoundTrip ==
  (lastSet # None /\ ValidPath(lastSet.heap, lastSet.root, lastSet.path)) =>
     /\ ~lastSet.threw
     /\ Get(heap, storeState, lastSet.path) = lastSet.value

\* C6 witness: set(2, "a.b.c") was called on a root where a.b.c was 1.
C6_Witness ==
  /\ SetDone
  /\ lastSet.path = P_abc
  /\ lastSet.value = 2
  /\ Get(lastSet.heap, lastSet.root, P_abc) = 1

\* C2: a targeted set at any depth leaves a root captured earlier as it was
\* (every path read from it gives what it gave when it was captured), and
\* the record get returns for the parent path afterwards is a new object.
C2_CopyOnWriteIsolation ==
  /\ captured # None =>
       \A p \in Paths :
          Get(heap, captured.ref, p) = Get(captured.heap, captured.ref, p)
  /\ (SetDone /\ Depth(lastSet.path) >= 1) =>
       Get(heap, storeState, ParentPath(lastSet.path))
         # Get(lastSet.heap, lastSet.root, ParentPath(lastSet.path))

\* C3: a set at a path calls each subscriber registered at exactly that path
\* once, with the value now at the path, and each whole-record subscriber
\* once, with the new root; it calls no subscriber of another path.
C3_ScopedNotification ==
  (SetDone /\ lastSet.path # Root) =>
     \A s \in Subs :
        /\ SetHas(storeSubscribers[lastSet.path], s) =>
             /\ Cardinality(CallsTo(s, lastSet.path)) = 1
             /\ \A i \in CallsTo(s, lastSet.path) :
                  lastSet.calls[i].value = lastSet.value
        /\ SetHas(storeSubscribers[Root], s) =>
             /\ Cardinality(CallsTo(s, Root)) = 1
             /\ \A i \in CallsTo(s, Root) : lastSet.calls[i].value = storeState
        /\ \A p \in Paths \ {Root, lastSet.path} : CallsTo(s, p) = {}

\* C40: a set at a path, with a number or a function, that throws because
\* the path leads through an absent key or through a value that is no
\* object leaves the state the object it was and every object as it was,
\* and calls no subscriber.
C40_FailedWrite ==
  (lastSet # None /\ lastSet.threw) =>
     /\ storeState = lastSet.root
     /\ Len(heap) = Len(lastSet.heap)
     /\ \A i \in 1..Len(lastSet.heap) : heap[i] = lastSet.heap[i]
     /\ lastSet.calls = <<>>
     /\ ~ValidPath(heap, storeState, lastSet.path)

\* C40 witness: with a whole-record subscriber registered, a setter for
\* a.b.c was given a function after a.b had been set to a number, and threw.
C40_Witness ==
  /\ lastSet # None
  /\ lastSet.threw
  /\ lastSet.path = P_abc
  /\ isSetStateActionFunction(lastSet.value)
  /\ Get(heap, storeState, P_ab) \in Nums
  /\ Members(storeSubscribers[Root]) # {}

\* C33: every set that succeeds, of the whole record or at a path, calls
\* each whole-record subscriber exactly once, with the new root, before it
\* returns, also when the state holds afterwards what it held before.
C33_NotValueDiffed ==
  SetDone =>
     \A s \in Members(storeSubscribers[Root]) :
        /\ Cardinality(CallsTo(s, Root)) = 1
        /\ \A i \in CallsTo(s, Root) : lastSet.calls[i].value = storeState
        /\ storeState # lastSet.root

\* C33 witness: a set at a path wrote the value the path held already,
\* with a whole-record subscriber registered, and the subscriber was called.
C33_Witness ==
  /\ SetDone
  /\ lastSet.path = P_abc
  /\ Get(lastSet.heap, lastSet.root, P_abc) = lastSet.value
  /\ SameValues(heap, storeState, lastSet.heap, lastSet.root)
  /\ Members(storeSubscribers[Root]) # {}
  /\ Len(lastSet.calls) = Cardinality(Members(storeSubscribers[Root]))

\* C29: a setter given a function calls it once, with the value found at
\* the path (with the root, for the whole record), and leaves at the path
\* (as the root) what the function returned, never the function; given a
\* number it leaves the number at the path.
C29_FunctionalUpdate ==
  (lastSet # None /\ ~lastSet.threw) =>
     LET found == Get(lastSet.heap, lastSet.root, lastSet.path)
         now == Get(heap, storeState, lastSet.path)
     IN IF lastSet.path = Root
        THEN /\ lastSet.applied = <<lastSet.root>>
             /\ storeState # Updater
             /\ IsRef(storeState)
             /\ Obj(heap, storeState) = [EmptyObject EXCEPT !["a"] = 1]
        ELSE IF isSetStateActionFunction(lastSet.value)
             THEN /\ lastSet.applied = <<found>>
                  /\ now # Updater
                  /\ now = found + 1
             ELSE /\ lastSet.applied = <<>>
                  /\ now = lastSet.value.value

\* C30: for a path that leads through an absent key or through a value
\* that is not an object before its last key, $get(path) throws and so does
\* $set(path)(1); $get(path) throws for exactly the paths for which
\* $set(path)(1) throws.
C30_PathResolutionFailure ==
  IsRef(storeState) =>
    \A path \in Paths \ {Root} :
      LET getFails == Get(heap, storeState, path) = Thrown
          setFails == setProperty(heap, storeState, 1, path).threw
      IN /\ ~ValidPath(heap, storeState, path) => getFails /\ setFails
         /\ getFails <=> setFails

(* ============================ atom / useAtom ========================== *)
(* One atom and one usage of it (one component calling its useAtom hook).   *)
(* A cleanup function is modelled by its identity, a number; the use        *)
(* function of the atom returns either the same functions at every run or   *)
(* new ones, the functions of run n having identity n.                      *)

\* The values the usage may pass as useArgs: 1..NumArgs.
NumArgs == 2

\* The most runs of events.use.
MaxRuns == 3

\* The most debounce timers pending at once.
MaxTimers == 2

UseArgs == 1..NumArgs

Cleanups == 1..MaxRuns

Bins == {"rerun", "unmount"}

\* debounce.delay: none, or some milliseconds.
Delays == {0, 100}

CleanupEvent(bin, fn) == [ev |-> "cleanup", bin |-> bin, fn |-> fn]

EffectEvent(n) == [ev |-> "effect", bin |-> "", fn |-> n]

\* The identity of the functions the n-th run of events.use returns.
Fn(n) == IF fresh THEN n ELSE 1

\* use?.(fields, ...useArgs) at its n-th run
UseReturn(n) ==
  IF returns \in {"pair", "rerun", "unmount"}
  THEN [isFunction |-> FALSE, fn |-> Undefined,
        rerun |-> IF returns = "unmount" THEN Undefined ELSE Fn(n),
        unmount |-> IF returns = "rerun" THEN Undefined ELSE Fn(n)]
  ELSE IF returns = "function"
       THEN [isFunction |-> TRUE, fn |-> Fn(n),
             rerun |-> Undefined, unmount |-> Undefined]
       ELSE [isFunction |-> FALSE, fn |-> Undefined,
             rerun |-> Undefined, unmount |-> Undefined]

\* on.rerun(fn) and on.unmount(fn): a function is added to the Set of its bin.
On(c, bin, fn) ==
  IF fn # Undefined THEN [c EXCEPT ![bin] = SetAdd(@, fn)] ELSE c

\* A trash without its try and catch.
TrashCatchesNothing == FALSE

\* trash(cleanup): whether what the cleanup throws is caught.
TrashCatches == TRUE

\* Whether a call of trash(fn) throws.
TrashThrows(fn) == fn \in throwing /\ ~TrashCatches

\* collector[bin].forEach(trash): the entries it reaches, which are all of
\* them unless a call of trash throws.
Trashed(c, bin) ==
  LET thrown == {i \in 1..Len(c[bin]) : TrashThrows(c[bin][i])}
  IN IF thrown = {} THEN Len(c[bin])
     ELSE CHOOSE i \in thrown : \A j \in thrown : i <= j

\* Whether dispose(bin) throws.
DisposeThrows(c, bin) == \E i \in 1..Len(c[bin]) : TrashThrows(c[bin][i])

\* A dispose that leaves out the cleanups the second component's runs
\* filed.
DisposeCallsOwn(c, bin) ==
  LET Own(f) == f \notin peer.filed
      own == SelectSeq(c[bin], Own)
  IN [i \in 1..Len(own) |-> CleanupEvent(bin, own[i])]

\* collector[bin].forEach(trash): the cleanups called, in order.
DisposeCalls(c, bin) ==
  [i \in 1..Trashed(c, bin) |-> CleanupEvent(bin, c[bin][i])]

\* dispose(bin): the collector once collector[bin].clear() is done, if it
\* is reached.
Dispose(c, bin) ==
  IF DisposeThrows(c, bin) THEN c ELSE [c EXCEPT ![bin] = <<>>]

\* A useValueWithArgs that files a single function for the next run.
useValueWithArgsRerun(c, n) ==
  LET value == UseReturn(n)
  IN IF value.isFunction THEN On(c, "rerun", value.fn)
     ELSE On(On(c, "rerun", value.rerun), "unmount", value.unmount)

\* useValueWithArgs(...useArgs) at the n-th run: the collector afterwards.
useValueWithArgs(c, n) ==
  LET value == UseReturn(n)
  IN IF value.isFunction THEN On(c, "unmount", value.fn)
     ELSE On(On(c, "rerun", value.rerun), "unmount", value.unmount)

\* An execute that flushes the unmount bin.
ExecuteBinUnmount == "unmount"

\* The bin execute flushes before it runs events.use: dispose("rerun").
ExecuteBin == "rerun"

\* The callback given to debounceEffect, at the n-th run: what it calls.
ExecuteCalls(c, n) ==
  DisposeCalls(c, ExecuteBin)
    \o (IF DisposeThrows(c, ExecuteBin) THEN <<>> ELSE <<EffectEvent(n)>>)

\* The collector after it.
Execute(c, n) ==
  IF DisposeThrows(c, ExecuteBin) THEN c
  ELSE useValueWithArgs(Dispose(c, ExecuteBin), n)

\* The number of calls of a cleanup among some events.
Count(events, bin, fn) ==
  Cardinality({i \in 1..Len(events) : events[i] = CleanupEvent(bin, fn)})

Tally(events) ==
  [b \in Bins |-> [f \in Cleanups |-> called[b][f] + Count(events, b, f)]]

\* What a step found and did; run is the number of the run it made, or 0.
AtomRecord(op, events, run) ==
  [op |-> op, events |-> events, found |-> collector, run |-> run,
   was |-> [usage |-> usage, useArgs |-> useArgs, enabled |-> enabled,
            timers |-> timers, runs |-> runs]]

(* ----------------------------- atom: Init ----------------------------- *)

\* atom(config), with cleanup functions of which those of some set throw
InitAtomWith(sets) ==
  /\ throwing \in sets
  /\ collector = [rerun |-> <<>>, unmount |-> <<>>]
  /\ delay \in Delays
  /\ returns \in {"pair", "function", "nothing", "rerun", "unmount"}
  /\ fresh \in BOOLEAN
  /\ usage = "idle"
  /\ useArgs = 0
  /\ enabled = FALSE
  /\ attached = {}
  /\ timers = 0
  /\ runs = 0
  /\ called = [b \in Bins |-> [f \in Cleanups |-> 0]]
  /\ lastAtom = None

\* atom(config), with cleanup functions that do not throw
InitAtom == InitAtomWith({{}})

(* ---------------------------- atom: actions --------------------------- *)

\* execute runs: the rerun bin is flushed, events.use is called and what it
\* returns is filed.
Run(op) ==
  /\ runs < MaxRuns
  /\ runs' = runs + 1
  /\ collector' = Execute(collector, runs')
  /\ called' = Tally(ExecuteCalls(collector, runs'))
  /\ lastAtom' = AtomRecord(op, ExecuteCalls(collector, runs'), runs')

\* execute(): the function debounceEffect returned is called.  Without a
\* delay it runs its callback at once, with one it starts a timer.
Schedule(op) ==
  IF delay = 0
  THEN /\ Run(op)
       /\ UNCHANGED timers
  ELSE /\ timers < MaxTimers
       /\ timers' = timers + 1
       /\ lastAtom' = AtomRecord(op, <<>>, 0)
       /\ UNCHANGED <<collector, runs, called>>

\* A useSyncEffect that does not look at enabled.
SyncEffectCallsUngated(args, en) ==
  usage = "idle" \/ args # useArgs \/ en # enabled

\* useSyncEffect(execute, useArgs, enabled): whether a render with these
\* options has execute called: at the mount and whenever useArgs or enabled
\* changed, if enabled.
SyncEffectCalls(args, en) ==
  en /\ (usage = "idle" \/ args # useArgs \/ en # enabled)

\* The component mounts with useAtom({useArgs, enabled}): useSyncEffect
\* calls execute if enabled, then the usage subscribes to both cells.
Attach(args, en) ==
  /\ usage = "idle"
  /\ usage' = "active"
  /\ useArgs' = args
  /\ enabled' = en
  /\ attached' = {"observable", "signal"}
  /\ IF SyncEffectCalls(args, en) THEN Schedule("attach")
     ELSE /\ lastAtom' = AtomRecord("attach", <<>>, 0)
          /\ UNCHANGED <<collector, runs, called, timers>>
  /\ UNCHANGED <<delay, returns, fresh, throwing>>

\* The component renders again with other useArgs or another enabled:
\* useSyncEffect calls the execute of this render if enabled.
Rerender(args, en) ==
  /\ usage = "active"
  /\ <<args, en>> # <<useArgs, enabled>>
  /\ useArgs' = args
  /\ enabled' = en
  /\ IF SyncEffectCalls(args, en) THEN Schedule("rerender")
     ELSE /\ lastAtom' = AtomRecord("rerender", <<>>, 0)
          /\ UNCHANGED <<collector, runs, called, timers>>
  /\ UNCHANGED <<delay, returns, fresh, throwing, usage, attached>>

\* A debounce timer expires: its callback runs.
TimerExpires ==
  /\ timers > 0
  /\ timers' = timers - 1
  /\ Run("timer")
  /\ UNCHANGED <<delay, returns, fresh, throwing, usage, useArgs, enabled,
                 attached>>

UnsubscribeEvent(cell) == [ev |-> "unsubscribe", bin |-> cell, fn |-> 0]

\* A cleanup of the useEffect that flushes the rerun bin.
TeardownBinRerun == "rerun"

\* The bin the cleanup function of the useEffect flushes:
\* dispose("unmount").
TeardownBin == "unmount"

\* A cleanup of the useEffect that flushes before it unsubscribes.
CleanupCallsFlushFirst(c) ==
  DisposeCalls(c, "unmount")
    \o <<UnsubscribeEvent("observable"), UnsubscribeEvent("signal")>>

\* The cleanup function of the useEffect: what it calls, in order.
CleanupCalls(c) ==
  <<UnsubscribeEvent("observable"), UnsubscribeEvent("signal")>>
    \o DisposeCalls(c, TeardownBin)

\* What a call of the cleanup function found and did: after is the step
\* before it, tally the calls of each cleanup before it.
CleanupRecord(op) ==
  [op |-> op, events |-> DisposeCalls(collector, TeardownBin),
   found |-> collector, run |-> 0,
   steps |-> CleanupCalls(collector),
   after |-> IF lastAtom = None THEN "" ELSE lastAtom.op,
   tally |-> called,
   threw |-> DisposeThrows(collector, TeardownBin)]

\* The cleanup function of the useEffect is called: it unsubscribes from
\* both cells and calls dispose("unmount").
Cleanup(op) ==
  /\ usage' = "disposed"
  /\ attached' = attached \ {"observable", "signal"}
  /\ collector' = Dispose(collector, TeardownBin)
  /\ called' = Tally(DisposeCalls(collector, TeardownBin))
  /\ lastAtom' = CleanupRecord(op)
  /\ UNCHANGED <<delay, returns, fresh, throwing, useArgs, enabled, timers,
                 runs>>

\* The component unmounts.
Teardown ==
  /\ usage = "active"
  /\ Cleanup("teardown")

\* The cleanup function is called once more.
TeardownAgain ==
  /\ usage = "disposed"
  /\ Cleanup("teardownAgain")

NextAtom ==
  \/ \E args \in UseArgs, en \in BOOLEAN :
        Attach(args, en)
          /\ UNCHANGED <<cellVars, storeVars, unitVars, debounceVars,
                         factoryVars, peerVars>>
  \/ \E args \in UseArgs, en \in BOOLEAN :
        Rerender(args, en)
          /\ UNCHANGED <<cellVars, storeVars, unitVars, debounceVars,
                         factoryVars, peerVars>>
  \/ TimerExpires
    /\ UNCHANGED <<cellVars, storeVars, unitVars, debounceVars,
                   factoryVars, peerVars>>
  \/ Teardown
    /\ UNCHANGED <<cellVars, storeVars, unitVars, debounceVars,
                   factoryVars, peerVars>>

InitAtomOnly ==
  InitAtom /\ NoUnit /\ NoDebounce /\ NoFactory /\ NoPeer /\ NoParticle
    /\ NoStore

SpecAtom == InitAtomOnly /\ [][NextAtom]_vars

\* The component renders again with the useArgs and the enabled it had.
RerenderSame ==
  /\ usage = "active"
  /\ IF SyncEffectCalls(useArgs, enabled) THEN Schedule("rerender")
     ELSE /\ lastAtom' = AtomRecord("rerender", <<>>, 0)
          /\ UNCHANGED <<collector, runs, called, timers>>
  /\ UNCHANGED <<delay, returns, fresh, throwing, usage, useArgs, enabled,
                 attached>>

\* The same, with renders that change no option.
NextGate ==
  \/ NextAtom
  \/ RerenderSame
    /\ UNCHANGED <<cellVars, storeVars, unitVars, debounceVars,
                   factoryVars, peerVars>>

SpecGate == InitAtomOnly /\ [][NextGate]_vars

\* atom.dispose(bin)
DisposeBin(bin) ==
  /\ collector' = Dispose(collector, bin)
  /\ called' = Tally(DisposeCalls(collector, bin))
  /\ lastAtom' = [op |-> "dispose", events |-> DisposeCalls(collector, bin),
                  found |-> collector, run |-> 0, bin |-> bin,
                  threw |-> DisposeThrows(collector, bin)]
  /\ UNCHANGED <<delay, returns, fresh, throwing, usage, useArgs, enabled,
                 attached, timers, runs>>

\* The same, with cleanup functions that throw and calls of atom.dispose.
NextFaulty ==
  \/ NextAtom
  \/ \E bin \in Bins :
        DisposeBin(bin)
          /\ UNCHANGED <<cellVars, storeVars, unitVars, debounceVars,
                         factoryVars, peerVars>>

InitFaulty ==
  InitAtomWith(SUBSET Cleanups)
    /\ NoUnit /\ NoDebounce /\ NoFactory /\ NoPeer /\ NoParticle /\ NoStore

SpecFaulty == InitFaulty /\ [][NextFaulty]_vars

\* The same, with cleanup functions that are called more than once.
NextTeardown ==
  \/ NextAtom
  \/ TeardownAgain
    /\ UNCHANGED <<cellVars, storeVars, unitVars, debounceVars,
                   factoryVars, peerVars>>

SpecTeardown == InitAtomOnly /\ [][NextTeardown]_vars

(* ------------------------ atom: a second usage ------------------------ *)

\* The execute of the second component runs (its useSyncEffect calls it at
\* the mount and when its useArgs change; no delay).
PeerRun(op) ==
  /\ Run(op)
  /\ peer' = [usage |-> "active", filed |-> peer.filed \cup {Fn(runs')}]
  /\ UNCHANGED <<delay, returns, fresh, throwing, usage, useArgs, enabled,
                 attached, timers>>

\* The second component mounts with useAtom().
PeerAttach ==
  /\ peer.usage = "idle"
  /\ PeerRun("peerAttach")

\* The second component renders again with other useArgs.
PeerRerender ==
  /\ peer.usage = "active"
  /\ PeerRun("peerRerender")

\* The second component unmounts: the cleanup function of its useEffect
\* unsubscribes it and calls dispose("unmount").
PeerTeardown ==
  /\ peer.usage = "active"
  /\ peer' = [peer EXCEPT !.usage = "disposed"]
  /\ collector' = Dispose(collector, TeardownBin)
  /\ called' = Tally(DisposeCalls(collector, TeardownBin))
  /\ lastAtom' = CleanupRecord("peerTeardown")
  /\ UNCHANGED <<delay, returns, fresh, throwing, usage, useArgs, enabled,
                 attached, timers, runs>>

PeerOnly ==
  UNCHANGED <<cellVars, storeVars, unitVars, debounceVars, factoryVars>>

\* Two components use one atom that has no debounce delay.
NextPeer ==
  \/ \E args \in UseArgs, en \in BOOLEAN :
        Attach(args, en) /\ PeerOnly /\ UNCHANGED peerVars
  \/ \E args \in UseArgs, en \in BOOLEAN :
        Rerender(args, en) /\ PeerOnly /\ UNCHANGED peerVars
  \/ Teardown /\ PeerOnly /\ UNCHANGED peerVars
  \/ PeerAttach /\ PeerOnly
  \/ PeerRerender /\ PeerOnly
  \/ PeerTeardown /\ PeerOnly

InitPeer == InitAtomOnly /\ delay = 0

SpecPeer == InitPeer /\ [][NextPeer]_vars

(* --------------------------- atom: properties ------------------------- *)

\* C39: a teardown calls no rerun cleanup and leaves the rerun bin as it
\* found it: a rerun cleanup the last run filed stays there.  It is called
\* and removed by the next run or by dispose("rerun").
C39_TeardownKeepsRerun ==
  /\ (lastAtom # None /\ lastAtom.op = "teardown") =>
        /\ collector.rerun = lastAtom.found.rerun
        /\ called.rerun = lastAtom.tally.rerun
        /\ \A i \in 1..Len(lastAtom.events) : lastAtom.events[i].bin = "unmount"
  /\ (lastAtom # None /\ lastAtom.op = "dispose" /\ lastAtom.bin = "rerun"
        /\ ~lastAtom.threw) =>
        /\ collector.rerun = <<>>
        /\ lastAtom.events =
             [i \in 1..Len(lastAtom.found.rerun) |->
                CleanupEvent("rerun", lastAtom.found.rerun[i])]
  /\ (lastAtom # None /\ lastAtom.run >= 1 /\ lastAtom.found.rerun # <<>>) =>
        lastAtom.events[1] = CleanupEvent("rerun", lastAtom.found.rerun[1])

\* C39 witness: a teardown found a rerun cleanup and an unmount cleanup
\* filed, called the unmount cleanup and left the rerun cleanup in its bin.
C39_Witness ==
  /\ lastAtom # None
  /\ lastAtom.op = "teardown"
  /\ lastAtom.found.rerun # <<>>
  /\ lastAtom.found.unmount # <<>>
  /\ collector.rerun = lastAtom.found.rerun
  /\ collector.unmount = <<>>
  /\ lastAtom.events # <<>>

\* C38: the two bins belong to the atom, not to a usage: the teardown of
\* either component calls every cleanup the unmount bin holds, those filed
\* by runs of the other component included, and empties the bin; a run
\* started by either component first calls every cleanup the rerun bin
\* holds, whichever component's run filed it.
C38_SharedCollectors ==
  /\ (lastAtom # None /\ lastAtom.op \in {"teardown", "peerTeardown"}) =>
        /\ lastAtom.events =
             [i \in 1..Len(lastAtom.found.unmount) |->
                CleanupEvent("unmount", lastAtom.found.unmount[i])]
        /\ collector.unmount = <<>>
  /\ (lastAtom # None /\ lastAtom.run >= 1) =>
        lastAtom.events =
          [i \in 1..Len(lastAtom.found.rerun) |->
             CleanupEvent("rerun", lastAtom.found.rerun[i])]
            \o <<EffectEvent(lastAtom.run)>>

\* C38 witness: the first component unmounted while the second was
\* mounted, and its teardown called an unmount cleanup that a run of the
\* second had filed; the run before had been the first component's and had
\* called a rerun cleanup of the second.
C38_Witness ==
  /\ fresh
  /\ returns = "pair"
  /\ lastAtom # None
  /\ lastAtom.op = "teardown"
  /\ peer.usage = "active"
  /\ peer.filed = {1}
  /\ CleanupEvent("unmount", 1) \in Range(lastAtom.events)
  /\ called.rerun[1] = 1
  /\ runs = 2


\* C5: for an atom whose use function returns {rerun, unmount}: attaching a
\* usage runs the effect and calls no cleanup; every later run first calls
\* the rerun cleanup the run before it filed, then the effect, and calls no
\* unmount cleanup; no unmount cleanup is called while the usage is not
\* disposed; disposing the usage calls each unmount cleanup filed exactly
\* once (the one unmount function, once, when the runs return the same
\* functions) and no rerun cleanup.
C5_EffectLifecycle ==
  returns = "pair" =>
     /\ (lastAtom # None /\ lastAtom.op = "attach") =>
           /\ \A b \in Bins, f \in Cleanups : called[b][f] = 0
           /\ (enabled /\ delay = 0) => lastAtom.events = <<EffectEvent(1)>>
     /\ (lastAtom # None /\ lastAtom.run >= 2) =>
           lastAtom.events = <<CleanupEvent("rerun", Fn(lastAtom.run - 1)),
                               EffectEvent(lastAtom.run)>>
     /\ usage # "disposed" => \A f \in Cleanups : called.unmount[f] = 0
     /\ \A f \in Cleanups : called.unmount[f] <= 1
     /\ (lastAtom # None /\ lastAtom.op = "teardown") =>
           /\ lastAtom.events =
                [i \in 1..Len(lastAtom.found.unmount) |->
                   CleanupEvent("unmount", lastAtom.found.unmount[i])]
           /\ \A f \in Range(lastAtom.found.unmount) : called.unmount[f] = 1
           /\ runs >= 1 => lastAtom.events # <<>>
           /\ (runs >= 1 /\ ~fresh) =>
                 lastAtom.events = <<CleanupEvent("unmount", 1)>>

\* C35: a run of the effect that returns a single function files it into
\* the unmount bin only, so that no later run calls it and the teardown
\* does; a run that returns an object files its rerun member into the rerun
\* bin and its unmount member into the unmount bin; a member that is
\* missing, and a return value that is nothing, is not filed.
C35_EffectReturnValue ==
  /\ (lastAtom # None /\ lastAtom.run >= 1) =>
        LET fn == Fn(lastAtom.run)
            filesRerun == returns \in {"pair", "rerun"}
            filesUnmount == returns \in {"pair", "unmount", "function"}
        IN /\ collector.rerun = IF filesRerun THEN <<fn>> ELSE <<>>
           /\ collector.unmount =
                 IF filesUnmount THEN SetAdd(lastAtom.found.unmount, fn)
                 ELSE lastAtom.found.unmount
  /\ returns \in {"function", "unmount", "nothing"} =>
        \A f \in Cleanups : called.rerun[f] = 0
  /\ returns \in {"rerun", "nothing"} =>
        \A f \in Cleanups : called.unmount[f] = 0
  /\ (returns = "function" /\ lastAtom # None /\ lastAtom.op = "teardown") =>
        lastAtom.events =
          [i \in 1..Len(lastAtom.found.unmount) |->
             CleanupEvent("unmount", lastAtom.found.unmount[i])]

\* C35 witness: the effect returned a single function at each of two runs,
\* the second run called nothing but the effect, and the teardown called
\* both functions.
C35_Witness ==
  /\ returns = "function"
  /\ fresh
  /\ lastAtom # None
  /\ lastAtom.op = "teardown"
  /\ runs = 2
  /\ lastAtom.events = <<CleanupEvent("unmount", 1), CleanupEvent("unmount", 2)>>
  /\ \A f \in Cleanups : called.rerun[f] = 0

\* C21: a teardown unsubscribes from the value cell and the context cell
\* and then calls each unmount cleanup it found filed, once each, in the
\* order they were filed; it leaves the usage unsubscribed and the unmount
\* bin empty.  A teardown repeated right after a teardown calls no cleanup
\* and leaves the collector and the number of calls of every cleanup as
\* they were.
C21_UsageTeardown ==
  (lastAtom # None /\ lastAtom.op \in {"teardown", "teardownAgain"}) =>
     /\ Len(lastAtom.steps) = 2 + Len(lastAtom.found.unmount)
     /\ lastAtom.steps[1] = UnsubscribeEvent("observable")
     /\ lastAtom.steps[2] = UnsubscribeEvent("signal")
     /\ \A i \in 1..Len(lastAtom.found.unmount) :
           lastAtom.steps[2 + i] =
             CleanupEvent("unmount", lastAtom.found.unmount[i])
     /\ \A f \in Cleanups :
           called.unmount[f] = lastAtom.tally.unmount[f] +
             (IF f \in Range(lastAtom.found.unmount) THEN 1 ELSE 0)
     /\ called.rerun = lastAtom.tally.rerun
     /\ attached = {}
     /\ collector.unmount = <<>>
     /\ (lastAtom.op = "teardownAgain"
           /\ lastAtom.after \in {"teardown", "teardownAgain"}) =>
           /\ lastAtom.events = <<>>
           /\ collector = lastAtom.found
           /\ called = lastAtom.tally

\* C21 witness: the teardown of a usage called the one unmount cleanup
\* filed; the teardown was repeated and the cleanup has been called once.
C21_Witness ==
  /\ lastAtom # None
  /\ lastAtom.op = "teardownAgain"
  /\ lastAtom.after = "teardown"
  /\ runs >= 1
  /\ returns = "pair"
  /\ called.unmount[1] = 1

\* C22: with cleanups that throw, a flush of a bin (by atom.dispose, by a
\* run of the effect for the rerun bin, by a teardown for the unmount bin)
\* calls every cleanup it found in the bin, once each, in the order they
\* were filed, whether or not one of them throws; nothing is thrown to the
\* caller (atom.dispose and the teardown do not throw, the run goes on to
\* call the effect); and the bin is empty once the flush is over (but for
\* what the effect of a run files after it).
C22_CleanupFailureIsolation ==
  /\ (lastAtom # None /\ lastAtom.op = "dispose") =>
        /\ lastAtom.events =
             [i \in 1..Len(lastAtom.found[lastAtom.bin]) |->
                CleanupEvent(lastAtom.bin, lastAtom.found[lastAtom.bin][i])]
        /\ ~lastAtom.threw
        /\ collector[lastAtom.bin] = <<>>
  /\ (lastAtom # None /\ lastAtom.op = "teardown") =>
        /\ lastAtom.events =
             [i \in 1..Len(lastAtom.found.unmount) |->
                CleanupEvent("unmount", lastAtom.found.unmount[i])]
        /\ ~lastAtom.threw
        /\ collector.unmount = <<>>
  /\ (lastAtom # None /\ lastAtom.run >= 1) =>
        /\ lastAtom.events =
             [i \in 1..Len(lastAtom.found.rerun) |->
                CleanupEvent("rerun", lastAtom.found.rerun[i])]
               \o <<EffectEvent(lastAtom.run)>>
        /\ Len(collector.rerun) <= 1
        /\ Range(collector.rerun) \subseteq {Fn(lastAtom.run)}

\* C22 witness: atom.dispose("unmount") found two cleanups of which the
\* first throws and the second does not; both were called.
C22_Witness ==
  /\ lastAtom # None
  /\ lastAtom.op = "dispose"
  /\ lastAtom.bin = "unmount"
  /\ Len(lastAtom.found.unmount) = 2
  /\ lastAtom.found.unmount[1] \in throwing
  /\ lastAtom.found.unmount[2] \notin throwing
  /\ called.unmount[lastAtom.found.unmount[2]] >= 1

Rendered == lastAtom # None /\ lastAtom.op \in {"attach", "rerender"}

\* execute was called once: a run was made or a timer started.
Scheduled ==
  /\ runs + timers = lastAtom.was.runs + lastAtom.was.timers + 1
  /\ delay = 0 =>
        /\ runs = lastAtom.was.runs + 1
        /\ Len(SelectSeq(lastAtom.events, LAMBDA e : e.ev = "effect")) = 1

NotScheduled ==
  /\ runs = lastAtom.was.runs
  /\ timers = lastAtom.was.timers
  /\ lastAtom.events = <<>>

C5_Witness ==
  /\ returns = "pair"
  /\ ~fresh
  /\ delay = 0
  /\ lastAtom # None
  /\ lastAtom.op = "teardown"
  /\ runs = 2
  /\ called.rerun[1] = 1
  /\ called.unmount[1] = 1

(* ====================================================================== *)
(* atom: the value cell, the context cell, set, emit and the usage's      *)
(* setter (src/app/src/atom.ts)                                           *)
(* ====================================================================== *)

\* The largest number a value may be.
MaxCount == 3

\* The calls of the usage's setter followed in a row.
MaxBurst == 2

Counts == 0..MaxCount

\* The keys a context may have.
CtxKeys == {"count", "name"}

\* The contexts and the partial contexts: records over some of the keys.
Contexts == UNION {[D -> Nums] : D \in SUBSET CtxKeys}

\* The functions given to emit: curr => curr, curr => ({...curr, count:
\* curr.count + 1}) and curr => ({}).
EmitFns == {"same", "bump", "clear"}

\* The events.set functions: none, ({value}) => value + 1,
\* ({previous}) => previous and ({value, ctx}) => ctx.count ?? value.
SetEvents == {"none", "inc", "previous", "ctx"}

\* The arguments of set: a value or the function prev => prev + 1.
SetStateActions == [value : Counts] \cup [fn : {"inc"}]

Plain(v) == [value |-> v]

isFunction(x) == "fn" \in DOMAIN x

\* getComputedState(value, previous)
getComputedState(value, previous) ==
  IF isFunction(value) THEN previous + 1 ELSE value.value

\* A spread that keeps nothing of the current context.
SpreadPartialOnly(curr, ctx) == ctx

\* { ...curr, ...ctx }
Spread(curr, ctx) ==
  [k \in DOMAIN curr \cup DOMAIN ctx |->
     IF k \in DOMAIN ctx THEN ctx[k] ELSE curr[k]]

\* ctx(curr) for the functions given to emit.
CallEmitFn(fn, curr) ==
  CASE fn = "same" -> curr
    [] fn = "bump" -> Spread(curr, [count |-> curr.count + 1])
    [] fn = "clear" -> <<>>

\* Whether ctx(curr) is curr itself and not a new object.
ReturnsCurr(fn) == fn = "same"

\* What React holds for the usage once a cell has called setState or
\* setCtx.
Mirrored(field, v) ==
  IF hook # None /\ hook.subscribed THEN [hook EXCEPT ![field] = v]
  ELSE hook

\* signal.publish(value): a new object replaces the context and the
\* subscribers are called.
PublishSignal(value, same) ==
  IF same THEN UNCHANGED <<signal, hook>>
  ELSE /\ signal' = value
       /\ hook' = Mirrored("ctx", value)

\* emit(ctx) with a partial context
Emit(ctx) ==
  /\ PublishSignal(Spread(signal, ctx), FALSE)
  /\ lastUnit' = [op |-> "emit", arg |-> ctx, found |-> signal,
                  returned |-> signal']
  /\ burst' = None
  /\ UNCHANGED <<observable, setEvent>>

\* emit(ctx) with a function
EmitFn(fn) ==
  /\ fn = "bump" => ("count" \in DOMAIN signal /\ signal.count < NumNums)
  /\ PublishSignal(CallEmitFn(fn, signal), ReturnsCurr(fn))
  /\ lastUnit' = [op |-> "emitFn", arg |-> fn, found |-> signal,
                  returned |-> signal']
  /\ burst' = None
  /\ UNCHANGED <<observable, setEvent>>

\* The params setValueWithArgs hands to events.set.
Params(value) ==
  [value |-> getComputedState(value, observable),
   previous |-> observable,
   ctx |-> signal]

\* set(params) for the events.set functions.
CallSetEvent(kind, params) ==
  CASE kind = "inc" -> params.value + 1
    [] kind = "previous" -> params.previous
    [] kind = "ctx" -> IF "count" \in DOMAIN params.ctx
                       THEN params.ctx.count ELSE params.value

\* A write path that leaves events.set out.
PublishedUnfiltered(value) == Params(value).value

\* What setValueWithArgs(value) publishes into the value cell.
Published(value) ==
  IF setEvent # "none" THEN CallSetEvent(setEvent, Params(value))
  ELSE Params(value).value

\* observable.publish(value): a value that is not the current one replaces
\* it and the subscribers are called.
PublishObservable(value) ==
  IF ObjectIs(observable, value) THEN UNCHANGED <<observable, hook>>
  ELSE /\ observable' = value
       /\ hook' = Mirrored("stored", value)

\* setValueWithArgs(value)
setValueWithArgs(value) ==
  /\ Params(value).value \in Counts
  /\ Published(value) \in Counts
  /\ PublishObservable(Published(value))

UnitRecord(op, arg, value) ==
  [op |-> op, arg |-> arg,
   found |-> [observable |-> observable, signal |-> signal,
              state |-> IF hook = None THEN None ELSE Plain(hook.state)],
   params |-> IF setEvent = "none" THEN None ELSE Params(value),
   returned |-> None]

\* atom.set(value)
Set(value) ==
  /\ setValueWithArgs(value)
  /\ lastUnit' = UnitRecord("set", value, value)
  /\ burst' = None
  /\ UNCHANGED <<signal, setEvent>>

\* The setter the latest render of the usage returned is called.
SetValue(value) ==
  /\ hook # None
  /\ getComputedState(value, hook.state) \in Counts
  /\ setValueWithArgs(Plain(getComputedState(value, hook.state)))
  /\ lastUnit' = UnitRecord("setValue", value,
                            Plain(getComputedState(value, hook.state)))
  /\ IF isFunction(value)
     THEN /\ IF burst = None THEN TRUE ELSE burst.calls < MaxBurst
          /\ burst' = IF burst = None
                      THEN [from |-> observable, calls |-> 1]
                      ELSE [burst EXCEPT !.calls = @ + 1]
     ELSE burst' = None
  /\ UNCHANGED <<signal, setEvent>>

\* The first render of a component calling useAtom: useState keeps the
\* atom's value and context.
UseAtom ==
  /\ hook = None
  /\ hook' = [state |-> observable, stored |-> observable, ctx |-> signal,
              subscribed |-> FALSE]
  /\ lastUnit' = None
  /\ burst' = None
  /\ UNCHANGED <<observable, signal, setEvent>>

\* The useEffect of the usage runs: it subscribes setState and setCtx,
\* which are called at once with the current value and context.
Effect ==
  /\ hook # None
  /\ ~hook.subscribed
  /\ hook' = [hook EXCEPT !.subscribed = TRUE, !.stored = observable,
                          !.ctx = signal]
  /\ lastUnit' = None
  /\ burst' = None
  /\ UNCHANGED <<observable, signal, setEvent>>

\* The component renders again: useState gives what setState was called
\* with.
Render ==
  /\ hook # None
  /\ hook.stored # hook.state
  /\ hook' = [hook EXCEPT !.state = hook.stored]
  /\ lastUnit' = None
  /\ burst' = None
  /\ UNCHANGED <<observable, signal, setEvent>>

\* atom(config)
InitUnit ==
  /\ observable \in {0, 1}
  /\ signal \in {<<>>, [count |-> 1, name |-> 1]}
  /\ setEvent \in SetEvents
  /\ hook = None
  /\ lastUnit = None
  /\ burst = None

EffectUntouched ==
  UNCHANGED <<collector, delay, returns, fresh, throwing, usage, useArgs,
              enabled, attached, timers, runs, called, lastAtom,
              debounceVars, factoryVars, peerVars>>

NextUnit ==
  \/ \E ctx \in Contexts :
        Emit(ctx) /\ EffectUntouched /\ UNCHANGED <<cellVars, storeVars>>
  \/ \E fn \in EmitFns :
        EmitFn(fn) /\ EffectUntouched /\ UNCHANGED <<cellVars, storeVars>>
  \/ \E value \in SetStateActions :
        Set(value) /\ EffectUntouched /\ UNCHANGED <<cellVars, storeVars>>
  \/ \E value \in SetStateActions :
        SetValue(value) /\ EffectUntouched /\ UNCHANGED <<cellVars, storeVars>>
  \/ UseAtom /\ EffectUntouched /\ UNCHANGED <<cellVars, storeVars>>
  \/ Effect /\ EffectUntouched /\ UNCHANGED <<cellVars, storeVars>>
  \/ Render /\ EffectUntouched /\ UNCHANGED <<cellVars, storeVars>>

InitUnitOnly ==
  InitUnit /\ NoEffect /\ NoDebounce /\ NoFactory /\ NoPeer /\ NoParticle
    /\ NoStore

SpecUnit == InitUnitOnly /\ [][NextUnit]_vars

(* --------------------------- atom: properties ------------------------- *)

UnitCalled(op) == lastUnit # None /\ lastUnit.op = op

\* C18: emit(partial) leaves the context with each key of the partial at
\* the partial's value and every other key at the value it had, and with
\* no other key; emit(fn) leaves the context equal to fn(context before);
\* both return the context they leave.
C18_Emit ==
  /\ UnitCalled("emit") =>
        /\ DOMAIN signal = DOMAIN lastUnit.found \cup DOMAIN lastUnit.arg
        /\ \A k \in DOMAIN lastUnit.arg : signal[k] = lastUnit.arg[k]
        /\ \A k \in DOMAIN lastUnit.found \ DOMAIN lastUnit.arg :
              signal[k] = lastUnit.found[k]
        /\ lastUnit.returned = signal
  /\ UnitCalled("emitFn") =>
        /\ lastUnit.arg = "same" => signal = lastUnit.found
        /\ lastUnit.arg = "clear" => signal = <<>>
        /\ lastUnit.arg = "bump" =>
              /\ signal.count = lastUnit.found.count + 1
              /\ DOMAIN signal = DOMAIN lastUnit.found
              /\ \A k \in DOMAIN signal \ {"count"} :
                    signal[k] = lastUnit.found[k]
        /\ lastUnit.returned = signal

\* C18 witness: emit({count: 2}) on {count: 1, name: 1} gave
\* {count: 2, name: 1}.
C18_Witness ==
  /\ UnitCalled("emit")
  /\ lastUnit.found = [count |-> 1, name |-> 1]
  /\ lastUnit.arg = [count |-> 2]
  /\ signal = [count |-> 2, name |-> 1]

\* C19: after set(x) the value is what the write path gives: x resolved
\* against the value before the call (that value plus one for
\* prev => prev + 1, x itself otherwise) when the atom has no events.set;
\* otherwise what events.set returns for {value: the resolved x, previous:
\* the value before the call, ctx: the context}, which is what it was
\* handed.
C19_WritePath ==
  UnitCalled("set") =>
     LET previous == lastUnit.found.observable
         resolved == IF "fn" \in DOMAIN lastUnit.arg THEN previous + 1
                     ELSE lastUnit.arg.value
     IN /\ setEvent = "none" => observable = resolved
        /\ setEvent # "none" =>
              lastUnit.params = [value |-> resolved, previous |-> previous,
                                 ctx |-> lastUnit.found.signal]
        /\ setEvent = "inc" => observable = resolved + 1
        /\ setEvent = "previous" => observable = previous
        /\ setEvent = "ctx" =>
              observable = IF "count" \in DOMAIN lastUnit.found.signal
                           THEN lastUnit.found.signal.count ELSE resolved

\* C19 witness: on an atom whose events.set adds one, set(prev => prev + 1)
\* found the value 1 and left 3.
C19_Witness ==
  /\ UnitCalled("set")
  /\ setEvent = "inc"
  /\ "fn" \in DOMAIN lastUnit.arg
  /\ lastUnit.found.observable = 1
  /\ observable = 3

\* C20: on an atom without events.set, after n calls in a row of the
\* usage's setter with prev => prev + 1 and no render between them, the
\* value is the value the first call found plus n.
C20_UsageSetter ==
  (setEvent = "none" /\ burst # None) =>
     observable = burst.from + burst.calls

(* ====================================================================== *)
(* debounceEffect (imported by src/app/src/atom.ts; its tests are in      *)
(* src/app/src/debounce-effect/index.test.ts)                             *)
(* ====================================================================== *)

\* The ticks of the clock in a delay of 100 ms.
DelayTicks == 2

\* The most calls of a debounced function.
MaxCalls == 3

\* The options: delay in ticks, leading, and trailing, which may be left
\* out; destructs tells whether the effect returns a destructor.
DebounceOptions ==
  [delay : {0, DelayTicks}, leading : BOOLEAN,
   trailing : {"unspecified", "enabled", "disabled"}, destructs : BOOLEAN]

\* The destructors: the n-th call of the effect returns the n-th.
Destructors == 1..(2 * MaxCalls)

\* A leading edge at every call.
LeadingFiresAlways(o, pending) == o.leading

\* Whether a call of the debounced function calls the effect at once.
LeadingFires(o, pending) == o.leading /\ ~pending

\* A trailing edge unless trailing is disabled.
TrailingFiresUnlessDisabled(o) == o.trailing # "disabled"

\* Whether the expiry of the timer calls the effect: trailing left out
\* stands for a trailing edge without leading and for none with it.
TrailingFires(o) ==
  IF o.trailing = "unspecified" THEN ~o.leading ELSE o.trailing = "enabled"

\* A call that leaves a pending timer running.
RestartedKeepsPending(o, remaining) ==
  IF remaining > 0 THEN remaining ELSE o.delay

\* The timer a call of the debounced function leaves: a new one of full
\* length in the place of the pending one.
Restarted(o, remaining) == o.delay

\* A timer that expires one tick early.
ExpiresEarly(remaining) == remaining = 2

\* Whether a tick makes the pending timer expire.
Expires(remaining) == remaining = 1

\* A returned function that leaves the timer.
ClearTimeoutNot(remaining) == remaining

\* clearTimeout: no timer is pending.
ClearTimeout(remaining) == 0

\* The effect is called, or not: its destructor is kept.
Ran(executes) ==
  /\ effectCalls' = effectCalls + (IF executes THEN 1 ELSE 0)
  /\ destructor' = IF executes
                   THEN (IF debounce.destructs THEN effectCalls + 1 ELSE 0)
                   ELSE destructor

DebounceRecord(op, executed) ==
  [op |-> op, pending |-> timeout > 0, executed |-> executed,
   after |-> waited, before |-> effectCalls, effects |-> effectCalls',
   found |-> destructor,
   prev |-> IF lastDebounce = None THEN None
            ELSE [op |-> lastDebounce.op, pending |-> lastDebounce.pending,
                  found |-> lastDebounce.found]]

\* debounceEffect(effect, options)
InitDebounce ==
  /\ debounce \in DebounceOptions
  /\ timeout = 0
  /\ waited = 0
  /\ debouncedCalls = 0
  /\ effectCalls = 0
  /\ destructor = 0
  /\ destructed = [d \in Destructors |-> 0]
  /\ lastDebounce = None

\* The debounced function is called.
Debounced ==
  /\ debouncedCalls < MaxCalls
  /\ debouncedCalls' = debouncedCalls + 1
  /\ LET now == IF debounce.delay = 0 THEN TRUE
                ELSE LeadingFires(debounce, timeout > 0)
     IN /\ Ran(now)
        /\ lastDebounce' = DebounceRecord("call", now)
  /\ timeout' = Restarted(debounce, timeout)
  /\ waited' = 0
  /\ UNCHANGED <<debounce, destructed>>

\* The clock advances one tick; the timer, if it expires, calls the effect
\* on a trailing edge.
Tick ==
  /\ debounce.delay > 0
  /\ debouncedCalls >= 1
  /\ waited <= debounce.delay
  /\ waited' = waited + 1
  /\ timeout' = IF timeout > 0 THEN timeout - 1 ELSE 0
  /\ Ran(Expires(timeout) /\ TrailingFires(debounce))
  /\ UNCHANGED <<debounce, debouncedCalls, destructed, lastDebounce>>

\* A function the debounced function returned is called: it cancels the
\* pending timer and calls the latest destructor, once.
Cancel ==
  /\ debouncedCalls >= 1
  /\ timeout' = ClearTimeout(timeout)
  /\ destructed' = IF destructor # 0
                   THEN [destructed EXCEPT ![destructor] = @ + 1]
                   ELSE destructed
  /\ destructor' = 0
  /\ waited' = 0
  /\ effectCalls' = effectCalls
  /\ lastDebounce' = DebounceRecord("cancel", FALSE)
  /\ UNCHANGED <<debounce, debouncedCalls>>

DebounceOnly ==
  UNCHANGED <<cellVars, storeVars, unitVars, collector, delay, returns,
              fresh, throwing, usage, useArgs, enabled, attached, timers,
              runs, called, lastAtom, factoryVars, peerVars>>

NextDebounce ==
  \/ Debounced /\ DebounceOnly
  \/ Tick /\ DebounceOnly
  \/ Cancel /\ DebounceOnly

InitDebounceOnly ==
  InitDebounce /\ NoEffect /\ NoUnit /\ NoFactory /\ NoPeer /\ NoParticle
    /\ NoStore

SpecDebounce == InitDebounceOnly /\ [][NextDebounce]_vars

(* ---------------------- debounceEffect: properties -------------------- *)

DebounceCalled(op) == lastDebounce # None /\ lastDebounce.op = op

\* C24: with a delay of 100 ms, leading not set and trailing enabled or
\* left out, the one call of the debounced function does not call the
\* effect; the effect has not been called while less than the delay has
\* passed since, and has been called once from then on.
C24_TrailingEdge ==
  (DebounceCalled("call") /\ debouncedCalls = 1
     /\ debounce.delay = DelayTicks /\ ~debounce.leading
     /\ debounce.trailing \in {"unspecified", "enabled"}) =>
        /\ ~lastDebounce.executed
        /\ lastDebounce.effects = 0
        /\ effectCalls = IF waited >= DelayTicks THEN 1 ELSE 0

\* C24 witness: one call with {delay: 100}; more than the delay has passed
\* and the effect has been called once.
C24_Witness ==
  /\ DebounceCalled("call")
  /\ debouncedCalls = 1
  /\ debounce.delay = DelayTicks
  /\ ~debounce.leading
  /\ debounce.trailing = "unspecified"
  /\ waited = DelayTicks + 1
  /\ effectCalls = 1

\* C25: with a delay of 100 ms and leading set, a call of the debounced
\* function calls the effect, once and at the call, when no timer is
\* pending, and does not call it when one is.
C25_LeadingEdge ==
  (DebounceCalled("call") /\ debounce.delay = DelayTicks
     /\ debounce.leading) =>
        /\ lastDebounce.executed = ~lastDebounce.pending
        /\ lastDebounce.effects =
             lastDebounce.before + (IF lastDebounce.pending THEN 0 ELSE 1)

\* C25 witness: with {delay: 100, leading: true} the first call called the
\* effect, the second, one tick later, did not.
C25_Witness ==
  /\ DebounceCalled("call")
  /\ debounce.delay = DelayTicks
  /\ debounce.leading
  /\ debouncedCalls = 2
  /\ lastDebounce.pending
  /\ lastDebounce.after = 1
  /\ lastDebounce.before = 1
  /\ effectCalls = 1

\* C26: after a call of the debounced function made while a timer was
\* pending, the timer has its full length less the time passed since that
\* call, and the effect is not called while less than the delay has passed
\* since that call; with a trailing edge it has been called once when the
\* delay has passed.
C26_Restart ==
  (DebounceCalled("call") /\ debounce.delay = DelayTicks
     /\ lastDebounce.pending) =>
        /\ waited < DelayTicks =>
              /\ timeout = DelayTicks - waited
              /\ effectCalls = lastDebounce.effects
        /\ (waited >= DelayTicks /\ TrailingFires(debounce)) =>
              effectCalls = lastDebounce.effects + 1

\* C26 witness: with {delay: 100}, two calls one tick apart; the effect was
\* called once, a delay after the second call.
C26_Witness ==
  /\ DebounceCalled("call")
  /\ debounce.delay = DelayTicks
  /\ ~debounce.leading
  /\ debounce.trailing = "unspecified"
  /\ debouncedCalls = 2
  /\ lastDebounce.pending
  /\ lastDebounce.after = 1
  /\ waited = DelayTicks
  /\ effectCalls = 1

\* C27: a call of a function the debounced function returned leaves no
\* timer pending, and the effect is not called after it until the
\* debounced function is called again; it calls the destructor the latest
\* call of the effect returned, if there is one and it has not been called;
\* no destructor is ever called twice.
C27_Disposer ==
  /\ DebounceCalled("cancel") =>
        /\ timeout = 0
        /\ effectCalls = lastDebounce.effects
        /\ lastDebounce.found # 0 => destructed[lastDebounce.found] = 1
        /\ destructor = 0
  /\ \A d \in DOMAIN destructed : destructed[d] <= 1

\* C27 witness: with {delay: 100, leading: true, trailing: true}, the call
\* called the effect; the function it returned was called while the timer
\* was pending, and once more; more than the delay has passed: the effect
\* was not called again and its destructor was called once.
C27_Witness ==
  /\ DebounceCalled("cancel")
  /\ debounce.delay = DelayTicks
  /\ debounce.leading
  /\ debounce.trailing = "enabled"
  /\ debounce.destructs
  /\ debouncedCalls = 1
  /\ lastDebounce.prev.op = "cancel"
  /\ lastDebounce.prev.pending
  /\ lastDebounce.prev.found = 1
  /\ waited = DelayTicks + 1
  /\ effectCalls = 1
  /\ destructed[1] = 1

FactoryStates == {-1} \cup Nums \cup {Undefined}

Factories ==
  [value : FactoryStates] \cup [fn : FactoryStates \cup {Thrown}]

\* The configurations of atom followed here: a state that is 0 or 1, a
\* function that returns it, or a function that throws.
AtomFactories == [value : {0, 1}] \cup [fn : {0, 1, Thrown}]

\* initialState() throws
FactoryThrows(f) == isFunction(f) /\ f.fn = Thrown

\* initialState(), or initialState itself
FactoryState(f) == IF isFunction(f) THEN f.fn ELSE f.value

isDictionary(value) == IsRef(value)

\* createStore: the state after its try and catch
StoreInitialState(f) ==
  IF FactoryThrows(f) THEN Undefined ELSE FactoryState(f)

\* What a constructor was given and did: whether it threw, whether the
\* component exists, and the state the component started with.
MadeRecord(f, threw, initial) ==
  [factory |-> f, threw |-> threw, built |-> ~threw,
   initial |-> IF threw THEN Undefined ELSE initial]

\* createStore(initialState)
CreateStore(f) ==
  /\ made.store = None
  /\ made.atom = None
  /\ made' = [made EXCEPT !.store = MadeRecord(f, FALSE, StoreInitialState(f))]
  /\ IF isDictionary(StoreInitialState(f))
     THEN /\ build' = "composite"
          /\ heap' = InitialHeap
          /\ storeState' = -1
          /\ storeSubscribers' = [p \in Paths |-> <<>>]
     ELSE /\ build' = "primitive"
          /\ heap' = <<>>
          /\ storeState' = StoreInitialState(f)
          /\ storeSubscribers' = [p \in {Root} |-> <<>>]
  /\ lastSet' = None
  /\ captured' = None
  /\ storeDisposers' = {}
  /\ lastUnsub' = None

\* createPrimitiveStore: $set()(value) with a number
PrimitiveSet(value) ==
  /\ build = "primitive"
  /\ storeState' = value
  /\ lastSet' = SetRecord(Root, value, FALSE,
                   NotifyCalls(getSubscribersByPath(Root), value, Root))
  /\ lastUnsub' = None
  /\ UNCHANGED <<heap, storeSubscribers, captured, storeDisposers, build>>

\* atom(config): state(context) is called where initialState is computed,
\* outside any try.
Atom(f, event) ==
  /\ made.atom = None
  /\ made.store = None
  /\ made' = [made EXCEPT
                !.atom = MadeRecord(f, FactoryThrows(f), FactoryState(f))]
  /\ IF FactoryThrows(f)
     THEN UNCHANGED <<observable, signal, setEvent>>
     ELSE /\ observable' = FactoryState(f)
          /\ signal' = <<>>
          /\ setEvent' = event
  /\ hook' = None
  /\ lastUnit' = None
  /\ burst' = None

ConstructedStore == made.store # None /\ made.store.built

ConstructedAtom == made.atom # None /\ made.atom.built

StoreOnly == UNCHANGED <<cellVars, atomVars>>

UnitOnly ==
  UNCHANGED <<cellVars, storeVars, collector, delay, returns, fresh,
              throwing, usage, useArgs, enabled, attached, timers, runs,
              called, lastAtom, debounceVars, factoryVars, peerVars>>

\* A store or an atom is constructed and then used.
NextConstruct ==
  \/ \E f \in Factories :
        CreateStore(f)
          /\ UNCHANGED <<cellVars, collector, delay, returns, fresh,
                         throwing, usage, useArgs, enabled, attached,
                         timers, runs, called, lastAtom, unitVars,
                         debounceVars, peerVars>>
  \/ \E f \in AtomFactories, event \in SetEvents :
        Atom(f, event)
          /\ UNCHANGED <<cellVars, storeVars, collector, delay, returns,
                         fresh, throwing, usage, useArgs, enabled, attached,
                         timers, runs, called, lastAtom, debounceVars,
                         peerVars>>
  \/ \E v \in Nums, path \in Paths \ {Root} :
        build = "composite" /\ SetProperty(v, path) /\ StoreOnly
  \/ \E v \in Nums : PrimitiveSet(v) /\ StoreOnly
  \/ \E s \in Subs :
        build = "primitive" /\ Sub(s, Root) /\ StoreOnly
  \/ \E value \in SetStateActions :
        ConstructedAtom /\ Set(value) /\ UnitOnly
  \/ \E ctx \in Contexts :
        ConstructedAtom /\ Emit(ctx) /\ UnitOnly

InitConstruct == NoStore /\ NoParticle /\ NoAtom

SpecConstruct == InitConstruct /\ [][NextConstruct]_vars

\* C31: a constructor whose state function throws does not throw itself:
\* the component exists and its initial state is undefined.
C31_ConstructionRecovery ==
  /\ (made.store # None /\ FactoryThrows(made.store.factory)) =>
        /\ ~made.store.threw
        /\ made.store.built
        /\ made.store.initial = Undefined
  /\ (made.atom # None /\ FactoryThrows(made.atom.factory)) =>
        /\ ~made.atom.threw
        /\ made.atom.built
        /\ made.atom.initial = Undefined

(* ================== Store: subscribers that throw ==================== *)

\* The subscriber that throws when it is called in a notification (0: none
\* does).
Throwers == Subs \cup {0}

\* Where forEach stops: at the first call of the subscriber that throws, or
\* after the last call.
Stops(calls, thrower) ==
  IF \E i \in 1..Len(calls) : calls[i].sub = thrower
  THEN CHOOSE i \in 1..Len(calls) :
         /\ calls[i].sub = thrower
         /\ \A j \in 1..(i - 1) : calls[j].sub # thrower
  ELSE Len(calls)

\* subscribers.forEach((subscriber) => subscriber(value)) when a subscriber
\* throws: the calls made.
ThrowingCalls(calls, thrower) == SubSeq(calls, 1, Stops(calls, thrower))

\* Whether the exception leaves notifySubscribers, setState and the setter.
NotifyThrows(calls, thrower) == \E i \in 1..Len(calls) : calls[i].sub = thrower

ThrowingRecord(value, calls, thrower) ==
  [path |-> Root, value |-> value,
   threw |-> NotifyThrows(calls, thrower),
   calls |-> ThrowingCalls(calls, thrower),
   root |-> storeState, heap |-> heap, thrower |-> thrower]

\* createCompositeStore: $set()(value) with a new record {a: n}, while a
\* subscriber throws
SetRootThrowing(n, thrower) ==
  /\ build = "composite"
  /\ Len(heap) < MaxObjs
  /\ LET h1 == Append(heap, [EmptyObject EXCEPT !["a"] = n])
         value == 0 - Len(h1)
     IN /\ heap' = h1
        /\ storeState' = value
        /\ lastSet' = ThrowingRecord(value, setStateCalls(h1, value, Root),
                                     thrower)
  /\ lastUnsub' = None
  /\ UNCHANGED <<storeSubscribers, captured, storeDisposers, build>>

\* createPrimitiveStore: $set()(value) with a number, while a subscriber
\* throws
PrimitiveSetThrowing(value, thrower) ==
  /\ build = "primitive"
  /\ storeState' = value
  /\ lastSet' =
       ThrowingRecord(value,
          NotifyCalls(getSubscribersByPath(Root), value, Root), thrower)
  /\ lastUnsub' = None
  /\ UNCHANGED <<heap, storeSubscribers, captured, storeDisposers, build>>

\* createPrimitiveStore(undefined)
InitPrimitiveStore ==
  /\ build = "primitive"
  /\ heap = <<>>
  /\ storeState = Undefined
  /\ storeSubscribers = [p \in {Root} |-> <<>>]
  /\ lastSet = None
  /\ captured = None
  /\ storeDisposers = {}
  /\ lastUnsub = None

NextThrowing ==
  \/ \E n \in Nums, thrower \in Throwers :
        SetRootThrowing(n, thrower) /\ StoreOnly
  \/ \E v \in Nums, thrower \in Throwers :
        PrimitiveSetThrowing(v, thrower) /\ StoreOnly
  \/ \E s \in Subs : Sub(s, Root) /\ StoreOnly
  \/ \E s \in Subs : Unsub(s, Root) /\ StoreOnly

InitThrowing ==
  /\ InitPrimitiveStore \/ InitStore
  /\ NoParticle
  /\ NoAtom

SpecThrowing == InitThrowing /\ [][NextThrowing]_vars

\* C32: when a subscriber throws during the notification of a set, every
\* subscriber of the notification is called all the same and the set does
\* not throw.
C32_SubscriberIsolation ==
  (lastSet # None /\ "thrower" \in DOMAIN lastSet) =>
     /\ ~lastSet.threw
     /\ lastSet.calls =
          NotifyCalls(getSubscribersByPath(Root), lastSet.value, Root)

====
